---- MODULE Spec2Model ----
(***************************************************************************)
(* spektr: the scanner (discovery, deduplication, sizing, event stream)    *)
(* and the interactive session that consumes it (run_tui_mode, run_tui,    *)
(* AppState).                                                              *)
(*                                                                         *)
(* Paths are sequences of component names.  Path::starts_with and          *)
(* Path::join work on components, so does the model.                       *)
(***************************************************************************)
EXTENDS Integers, Sequences, FiniteSets, TLC

VARIABLES
  fsMarkers,        \* the file system: directory -> marker files it holds
  pc,               \* position of Scanner::scan
  readDirs,         \* directories the walker's pool has read
  walkStack,        \* the iterator's pending siblings, innermost first
  walkErr,          \* entries for which the walker yielded Err
  candidates,       \* Vec<Candidate> of the discovery phase
  valid_projects,   \* accepted candidates after deduplication
  ignored_prefixes, \* target zones of the accepted candidates
  sizePc,           \* per accepted candidate: position of its sizing closure
  sizeErr,          \* per accepted candidate: targets whose size walk failed
  projects,         \* per accepted candidate: the CleanableProject built
  events,           \* what was sent successfully on the channel, in order
  rxAlive,          \* the Receiver has not been dropped
  sendFailed,       \* some tx.send returned Err
  scanResult,       \* what scan returned: none yet, Ok, or an error
  dry_run,          \* Cli::dry_run
  feed,             \* projects the scanner thread has still to size
  analyzing,        \* projects whose sizing closure has sent Analyzing only
  feedComplete,     \* Complete was sent while run_tui held the Receiver
  rxQueue,          \* events sent and not yet received by run_tui
  state,            \* the AppState of run_tui
  tuiPc,            \* position of run_tui_mode / run_tui
  deleted,          \* target directories removed by the deletion step
  tuiResult,        \* how run_tui_mode ended
  delEnv            \* the targets found missing / failing to be removed

scanVars == <<fsMarkers, pc, readDirs, walkStack, walkErr, candidates, valid_projects,
              ignored_prefixes, sizePc, sizeErr, projects, events, rxAlive,
              sendFailed, scanResult>>

tuiVars == <<dry_run, feed, analyzing, feedComplete, rxQueue, state, tuiPc, deleted,
             tuiResult, delEnv>>

vars == <<scanVars, tuiVars>>

----------------------------------------------------------------------------
(* Bounds *)

\* at most this many directories of the tree hold marker files
MaxMarked == 2

\* at most this many projects are reported to the interactive session
MaxFeed == 1

\* at most this many projects are added to the AppState under its operations
MaxView == 2

\* at most this many projects are reported to the session of the loop alone
MaxLoop == 2

\* at most this many projects are given to build_tree
MaxTree == 3

----------------------------------------------------------------------------
(* Paths *)

ScanRoot == <<"w">>

Join(p, rel) == p \o rel

StartsWith(p, prefix) ==
  /\ Len(prefix) <= Len(p)
  /\ SubSeq(p, 1, Len(prefix)) = prefix

\* Path::components().count(): the root directory and one per name
ComponentsCount(p) == Len(p) + 1

Parent(p) == SubSeq(p, 1, Len(p) - 1)

----------------------------------------------------------------------------
(* The directory tree under the scan root.  Which directories exist is     *)
(* fixed; which of them hold marker files is the input.                    *)

FsDirs ==
  { <<"w">>,
    <<"w", "a">>,
    <<"w", "a", "node_modules">>,
    <<"w", "a", "node_modules", "b">>,
    <<"w", "a", "app">>,
    <<"w", "a", "app", "build">>,
    <<"w", "a", "build">> }

Children(d) == { c \in FsDirs : Len(c) = Len(d) + 1 /\ Parent(c) = d }

\* bytes of the regular files lying directly in a directory
FileBytes(d) ==
  CASE d = <<"w">>                            -> 1
    [] d = <<"w", "a">>                       -> 2
    [] d = <<"w", "a", "node_modules">>       -> 4
    [] d = <<"w", "a", "node_modules", "b">>  -> 8
    [] d = <<"w", "a", "app">>                -> 64
    [] d = <<"w", "a", "app", "build">>       -> 128
    [] d = <<"w", "a", "build">>              -> 256
    [] OTHER                                  -> 0

Exists(p) == p \in FsDirs

\* the marker files a project directory of the input may hold
MarkerChoices ==
  { {"package.json", "Cargo.toml"}, {"Cargo.toml"},
    {"pubspec.yaml", "build.gradle"}, {"build.gradle.kts"} }

\* the directories of the input that may hold marker files
Markable ==
  { <<"w", "a">>, <<"w", "a", "node_modules", "b">>,
    <<"w", "a", "app">>, <<"w", "a", "build">> }

----------------------------------------------------------------------------
(* Strategies *)

NodeStrategy ==
  [ name    |-> "Node.js",
    markers |-> {"package.json"},
    targets |-> << <<"node_modules">>, <<".next">>, <<"dist">>, <<"build">> >> ]

RustStrategy ==
  [ name    |-> "Rust",
    markers |-> {"Cargo.toml"},
    targets |-> << <<"target">> >> ]

FlutterStrategy ==
  [ name    |-> "Flutter",
    markers |-> {"pubspec.yaml"},
    targets |-> << <<"build">>, <<".dart_tool">> >> ]

AndroidStrategy ==
  [ name    |-> "Android",
    markers |-> {"build.gradle", "build.gradle.kts"},
    targets |-> << <<"app", "build">>, <<"build">>, <<".gradle">> >> ]

default_strategies ==
  << NodeStrategy, RustStrategy, FlutterStrategy, AndroidStrategy >>

\* CleaningStrategy::detect: one of the strategy's marker files exists
Detect(idx, path) ==
  fsMarkers[path] \cap default_strategies[idx].markers # {}

FirstMatch_Last(path) ==
  IF \E i \in 1..Len(default_strategies) : Detect(i, path)
  THEN CHOOSE i \in 1..Len(default_strategies) :
         /\ Detect(i, path)
         /\ \A j \in (i + 1)..Len(default_strategies) : ~Detect(j, path)
  ELSE 0

\* the strategy loop of scan: the first strategy that detects, 0 if none
FirstMatch(path) ==
  IF \E i \in 1..Len(default_strategies) : Detect(i, path)
  THEN CHOOSE i \in 1..Len(default_strategies) :
         /\ Detect(i, path)
         /\ \A j \in 1..(i - 1) : ~Detect(j, path)
  ELSE 0

----------------------------------------------------------------------------
(* Scanner: pure parts *)

NoProject ==
  [ root_path |-> <<>>, strategy_name |-> "", targets |-> <<>>,
    total_size |-> 0, risk_level |-> "Low" ]

ScanningEvent(path) ==
  [ type |-> "Scanning", text |-> path, project |-> NoProject ]

AnalyzingEvent(root) ==
  [ type |-> "Scanning", text |-> <<"Analyzing: ">> \o root, project |-> NoProject ]

ProjectFoundEvent(project) ==
  [ type |-> "ProjectFound", text |-> <<>>, project |-> project ]

CompleteEvent ==
  [ type |-> "Complete", text |-> <<>>, project |-> NoProject ]

\* Sender::send: the event is queued unless the receiver is gone
Sent(chan, alive, ev) == IF alive THEN Append(chan, ev) ELSE chan

SendProjectFound_Twice(chan, alive, p) ==
  Sent(Sent(chan, alive, ProjectFoundEvent(p)), alive, ProjectFoundEvent(p))

\* let _ = tx.send(ScanEvent::ProjectFound(project.clone()))
SendProjectFound(chan, alive, p) == Sent(chan, alive, ProjectFoundEvent(p))

\* the for-loop body: a candidate for the first strategy that detects
PushCandidate(cands, path) ==
  IF FirstMatch(path) # 0
  THEN Append(cands, [root |-> path, strategy_idx |-> FirstMatch(path)])
  ELSE cands

\* insertion of one candidate behind every candidate that is not deeper
InsertByDepth(sorted, c) ==
  LET n == Cardinality({ j \in 1..Len(sorted) :
                 ComponentsCount(sorted[j].root) <= ComponentsCount(c.root) })
  IN SubSeq(sorted, 1, n) \o <<c>> \o SubSeq(sorted, n + 1, Len(sorted))

\* candidates.sort_by(component count): stable, shallowest first
RECURSIVE SortByDepth(_)
SortByDepth(cands) ==
  IF cands = <<>> THEN <<>>
  ELSE InsertByDepth(SortByDepth(SubSeq(cands, 1, Len(cands) - 1)),
                     cands[Len(cands)])

IsSkipped_Equal(root, prefixes) ==
  \E k \in 1..Len(prefixes) : root = prefixes[k]

\* the inner loop over ignored_prefixes
IsSkipped(root, prefixes) ==
  \E k \in 1..Len(prefixes) : StartsWith(root, prefixes[k])

TargetZones_Root(c) == << c.root >>

\* the target zones an accepted candidate adds to ignored_prefixes
TargetZones(c) ==
  LET ts == default_strategies[c.strategy_idx].targets
  IN [ k \in 1..Len(ts) |-> Join(c.root, ts[k]) ]

\* the deduplication loop over the sorted candidates
RECURSIVE DedupLoop(_, _, _, _)
DedupLoop(sorted, i, valid, prefixes) ==
  IF i > Len(sorted) THEN [ valid |-> valid, prefixes |-> prefixes ]
  ELSE IF IsSkipped(sorted[i].root, prefixes)
       THEN DedupLoop(sorted, i + 1, valid, prefixes)
       ELSE DedupLoop(sorted, i + 1, Append(valid, sorted[i]),
                      prefixes \o TargetZones(sorted[i]))

\* Scanner::find_targets: the strategy's targets that exist under root
find_targets(root, idx) ==
  LET ts == default_strategies[idx].targets
      Present(t) == Exists(Join(root, t))
      kept == SelectSeq(ts, Present)
  IN [ k \in 1..Len(kept) |-> Join(root, kept[k]) ]

RECURSIVE SumBytes(_)
SumBytes(dirs) ==
  IF dirs = {} THEN 0
  ELSE LET d == CHOOSE x \in dirs : TRUE
       IN FileBytes(d) + SumBytes(dirs \ {d})

\* the walk of one target: every regular file at or below it
WalkBytes(target) == SumBytes({ d \in FsDirs : StartsWith(d, target) })

RECURSIVE SumTargets(_, _)
SumTargets(targets, k) ==
  IF k > Len(targets) THEN 0
  ELSE WalkBytes(targets[k]) + SumTargets(targets, k + 1)

\* Scanner::calculate_size: Err as soon as the walk of a target fails
calculate_size(targets, bad) ==
  IF \E k \in 1..Len(targets) : targets[k] \in bad
  THEN [ ok |-> FALSE, value |-> 0 ]
  ELSE [ ok |-> TRUE, value |-> SumTargets(targets, 1) ]

\* Result::unwrap_or(0)
UnwrapOr0(r) == IF r.ok THEN r.value ELSE 0

\* the CleanableProject the sizing closure builds
BuildProject(c, bad) ==
  LET targets == find_targets(c.root, c.strategy_idx)
  IN [ root_path     |-> c.root,
       strategy_name |-> default_strategies[c.strategy_idx].name,
       targets       |-> targets,
       total_size    |-> UnwrapOr0(calculate_size(targets, bad)),
       risk_level    |-> "Low" ]

AllSized_NoWait(spc) == TRUE

\* collect(): the parallel map has run every closure to its end
AllSized(spc) == \A i \in DOMAIN spc : spc[i] = "done"

CompleteResult_Ignored(alive) == "Ok"

\* tx.send(ScanEvent::Complete)? and Ok(projects)
CompleteResult(alive) == IF alive THEN "Ok" ELSE "ErrSend"

----------------------------------------------------------------------------
(* Names: byte order of the component names in use, and to_lowercase *)

\* the component names of the model in the order str::cmp gives them
NameOrder ==
  << ".dart_tool", ".gradle", ".next", "B", "a", "app", "b", "build", "dist",
     "node_modules", "sub", "target", "w" >>

NameRank(n) == CHOOSE k \in 1..Len(NameOrder) : NameOrder[k] = n

\* str::to_lowercase
ToLowercase(n) == IF n = "B" THEN "b" ELSE n

Min2(a, b) == IF a <= b THEN a ELSE b

\* the length of the longest common prefix of two paths
CommonLen(p, q) ==
  Cardinality({ k \in 1..Min2(Len(p), Len(q)) :
                  \A j \in 1..k : p[j] = q[j] })

\* Path::cmp: component by component, a proper prefix first
PathLess(p, q) ==
  LET n == CommonLen(p, q)
  IN IF n = Len(p) THEN n < Len(q)
     ELSE IF n = Len(q) THEN FALSE
     ELSE NameRank(p[n + 1]) < NameRank(q[n + 1])

PathLeq(p, q) == p = q \/ PathLess(p, q)

\* Path::strip_prefix
StripPrefix(p, base) ==
  IF StartsWith(p, base)
  THEN [ ok |-> TRUE, rel |-> SubSeq(p, Len(base) + 1, Len(p)) ]
  ELSE [ ok |-> FALSE, rel |-> <<>> ]

----------------------------------------------------------------------------
(* tui/tree.rs *)

\* TreeNode::new
TreeNodeNew(path) ==
  [ path |-> path, children |-> <<>>, project |-> NoProject,
    collapsed |-> FALSE, checked |-> FALSE ]

IsSome(project) == project # NoProject

\* TreeNode::label: the file name of the node's path
Label(node) == IF node.path = <<>> THEN "" ELSE node.path[Len(node.path)]

\* TreeNode::total_size
RECURSIVE NodeTotalSize(_)
RECURSIVE NodesTotalSize(_)
NodeTotalSize(node) ==
  (IF IsSome(node.project) THEN node.project.total_size ELSE 0)
    + NodesTotalSize(node.children)

NodesTotalSize(nodes) ==
  IF nodes = <<>> THEN 0
  ELSE NodeTotalSize(Head(nodes)) + NodesTotalSize(Tail(nodes))

set_checked_Shallow(node, checked) == [ node EXCEPT !.checked = checked ]

\* TreeNode::set_checked
RECURSIVE set_checked(_, _)
set_checked(node, checked) ==
  [ node EXCEPT
      !.checked = checked,
      !.children = [ k \in 1..Len(node.children) |->
                       set_checked(node.children[k], checked) ] ]

\* the sequence with a project inserted behind those that are not greater
InsertByPath(sorted, p) ==
  LET n == Cardinality({ j \in 1..Len(sorted) :
                           PathLeq(sorted[j].root_path, p.root_path) })
  IN SubSeq(sorted, 1, n) \o <<p>> \o SubSeq(sorted, n + 1, Len(sorted))

\* projects_sorted.sort_by(root_path): stable
RECURSIVE SortByPath(_)
SortByPath(ps) ==
  IF ps = <<>> THEN <<>>
  ELSE InsertByPath(SortByPath(SubSeq(ps, 1, Len(ps) - 1)), ps[Len(ps)])

\* nodes.iter().position(|n| n.label() == name), 0 if there is none
PositionByLabel(nodes, name) ==
  IF \E i \in 1..Len(nodes) : Label(nodes[i]) = name
  THEN CHOOSE i \in 1..Len(nodes) :
         /\ Label(nodes[i]) = name
         /\ \A j \in 1..(i - 1) : Label(nodes[j]) # name
  ELSE 0

RECURSIVE insert_path(_, _, _, _)
insert_path(nodes, components, project, current_base) ==
  IF components = <<>> THEN nodes
  ELSE
    LET current_name == Head(components)
        is_last      == Len(components) = 1
        node_path    == Join(current_base, <<current_name>>)
        found        == PositionByLabel(nodes, current_name)
        nodes1       == IF found # 0 THEN nodes
                        ELSE Append(nodes, TreeNodeNew(node_path))
        idx          == IF found # 0 THEN found ELSE Len(nodes1)
    IN IF is_last
       THEN [ nodes1 EXCEPT ![idx].project = project ]
       ELSE [ nodes1 EXCEPT ![idx].children =
                insert_path(nodes1[idx].children, Tail(components), project,
                            node_path) ]

\* the sequence with a node inserted behind those whose key is not greater
InsertByLabel(sorted, node) ==
  LET key(x) == NameRank(ToLowercase(Label(x)))
      n == Cardinality({ j \in 1..Len(sorted) : key(sorted[j]) <= key(node) })
  IN SubSeq(sorted, 1, n) \o <<node>> \o SubSeq(sorted, n + 1, Len(sorted))

\* nodes.sort_by_key(lower-cased label): stable
RECURSIVE SortByLabel(_)
SortByLabel(nodes) ==
  IF nodes = <<>> THEN <<>>
  ELSE InsertByLabel(SortByLabel(SubSeq(nodes, 1, Len(nodes) - 1)),
                     nodes[Len(nodes)])

sort_tree_TopOnly(nodes) == SortByLabel(nodes)

RECURSIVE sort_tree(_)
sort_tree(nodes) ==
  LET sorted == SortByLabel(nodes)
  IN [ k \in 1..Len(sorted) |->
         [ sorted[k] EXCEPT !.children = sort_tree(sorted[k].children) ] ]

\* the body of build_tree's loop for one project
InsertProject(roots, project, scan_root) ==
  LET rel == StripPrefix(project.root_path, scan_root)
  IN IF ~rel.ok
     THEN IF project.root_path # <<>>
          THEN Append(roots, [ TreeNodeNew(project.root_path)
                                 EXCEPT !.project = project ])
          ELSE roots
     ELSE IF rel.rel = <<>>
          THEN IF \E i \in 1..Len(roots) : roots[i].path = scan_root
               THEN LET i == CHOOSE i \in 1..Len(roots) :
                               /\ roots[i].path = scan_root
                               /\ \A j \in 1..(i - 1) : roots[j].path # scan_root
                    IN [ roots EXCEPT ![i].project = project ]
               ELSE Append(roots, [ TreeNodeNew(scan_root)
                                      EXCEPT !.project = project ])
          ELSE insert_path(roots, rel.rel, project, scan_root)

RECURSIVE InsertProjects(_, _, _)
InsertProjects(roots, ps, scan_root) ==
  IF ps = <<>> THEN roots
  ELSE InsertProjects(InsertProject(roots, Head(ps), scan_root), Tail(ps),
                      scan_root)

build_tree(ps, scan_root) ==
  sort_tree(InsertProjects(<<>>, SortByPath(ps), scan_root))

\* build_guide_prefix: one segment per ancestor, then the connector; the
\* box-drawing characters are written "|  " (bar), "L_ " (corner), "+_ " (tee)
build_guide_prefix(depth, is_last, ancestors_are_last) ==
  IF depth = 0 THEN <<>>
  ELSE [ k \in 1..Len(ancestors_are_last) |->
           IF ancestors_are_last[k] THEN "   " ELSE "|  " ]
       \o << IF is_last THEN "L_ " ELSE "+_ " >>

\* flatten_recursive; pos is the node's place in the forest (child indices)
RECURSIVE flatten_recursive(_, _, _, _, _)
RECURSIVE FlattenChildren(_, _, _, _, _)
flatten_recursive_All(node, pos, depth, is_last_child, ancestors_are_last) ==
  LET self == [ pos |-> pos, node |-> node, depth |-> depth,
                guide_prefix |-> build_guide_prefix(depth, is_last_child,
                                                    ancestors_are_last) ]
      new_ancestors == IF depth > 0
                       THEN Append(ancestors_are_last, is_last_child)
                       ELSE ancestors_are_last
  IN << self >> \o FlattenChildren(node.children, pos, depth + 1,
                                   new_ancestors, 1)

flatten_recursive_PushRoot(node, pos, depth, is_last_child, ancestors_are_last) ==
  LET self == [ pos |-> pos, node |-> node, depth |-> depth,
                guide_prefix |-> build_guide_prefix(depth, is_last_child,
                                                    ancestors_are_last) ]
      new_ancestors == Append(ancestors_are_last, is_last_child)
  IN IF node.collapsed THEN << self >>
     ELSE << self >> \o FlattenChildren(node.children, pos, depth + 1,
                                        new_ancestors, 1)

flatten_recursive(node, pos, depth, is_last_child, ancestors_are_last) ==
  LET self == [ pos |-> pos, node |-> node, depth |-> depth,
                guide_prefix |-> build_guide_prefix(depth, is_last_child,
                                                    ancestors_are_last) ]
      new_ancestors == IF depth > 0
                       THEN Append(ancestors_are_last, is_last_child)
                       ELSE ancestors_are_last
  IN IF node.collapsed THEN << self >>
     ELSE << self >> \o FlattenChildren(node.children, pos, depth + 1,
                                        new_ancestors, 1)

FlattenChildren(children, pos, depth, ancestors, i) ==
  IF i > Len(children) THEN <<>>
  ELSE flatten_recursive(children[i], Append(pos, i), depth,
                         i = Len(children), ancestors)
       \o FlattenChildren(children, pos, depth, ancestors, i + 1)

flatten_tree(roots) == FlattenChildren(roots, <<>>, 0, <<>>, 1)

\* the node at a place of the forest
RECURSIVE NodeAt(_, _)
NodeAt(nodes, pos) ==
  IF Len(pos) = 1 THEN nodes[pos[1]]
  ELSE NodeAt(nodes[pos[1]].children, Tail(pos))

\* the forest with the node at a place replaced
RECURSIVE ReplaceAt(_, _, _)
ReplaceAt(nodes, pos, new) ==
  IF Len(pos) = 1 THEN [ nodes EXCEPT ![pos[1]] = new ]
  ELSE [ nodes EXCEPT ![pos[1]].children =
           ReplaceAt(nodes[pos[1]].children, Tail(pos), new) ]

----------------------------------------------------------------------------
(* tui/app_state.rs.  AppState is a record; indices are zero-based as in   *)
(* the source, sequences are one-based.                                     *)

\* FilterMode::next
FilterNext(mode) ==
  CASE mode = "All"     -> "NodeJs"
    [] mode = "NodeJs"  -> "Rust"
    [] mode = "Rust"    -> "Flutter"
    [] mode = "Flutter" -> "Android"
    [] mode = "Android" -> "All"

\* FilterMode::label
FilterLabel(mode) ==
  CASE mode = "All"     -> "All"
    [] mode = "NodeJs"  -> "Node.js"
    [] mode = "Rust"    -> "Rust"
    [] mode = "Flutter" -> "Flutter"
    [] mode = "Android" -> "Android"

\* the match arms of the filter closure in refresh_visible
FilterMatches(mode, p) ==
  CASE mode = "All"     -> TRUE
    [] mode = "NodeJs"  -> p.strategy_name = "Node.js"
    [] mode = "Rust"    -> p.strategy_name = "Rust"
    [] mode = "Flutter" -> p.strategy_name = "Flutter"
    [] mode = "Android" -> p.strategy_name = "Android"

SortNext_Swap(mode) == IF mode = "SizeDesc" THEN "SizeAsc" ELSE "SizeDesc"

\* the match in toggle_sort
SortNext(mode) ==
  CASE mode = "SizeDesc" -> "SizeAsc"
    [] mode = "SizeAsc"  -> "NameAsc"
    [] mode = "NameAsc"  -> "NameDesc"
    [] mode = "NameDesc" -> "SizeDesc"

\* AppState::new
AppStateNew(scan_path) ==
  [ scan_path          |-> scan_path,
    all_projects       |-> <<>>,
    visible_projects   |-> <<>>,
    selected_index     |-> 0,
    selected_projects  |-> {},
    sort_mode          |-> "SizeDesc",
    filter_mode        |-> "All",
    view_mode          |-> "List",
    tree_roots         |-> <<>>,
    show_confirmation  |-> FALSE,
    deletion_confirmed |-> FALSE,
    scanning           |-> TRUE,
    scanning_path      |-> <<>> ]

\* find_node_at_mut: the place of the node found (<<>> for None) and the
\* counter as the call leaves it
RECURSIVE find_node_at_mut(_, _, _, _)
RECURSIVE FindAmong(_, _, _, _, _)
find_node_at_mut_IgnoreCollapsed(node, pos, current_idx, target_idx) ==
  IF current_idx = target_idx THEN [ pos |-> pos, idx |-> current_idx ]
  ELSE FindAmong(node.children, pos, current_idx + 1, target_idx, 1)

find_node_at_mut(node, pos, current_idx, target_idx) ==
  IF current_idx = target_idx THEN [ pos |-> pos, idx |-> current_idx ]
  ELSE IF node.collapsed THEN [ pos |-> <<>>, idx |-> current_idx + 1 ]
  ELSE FindAmong(node.children, pos, current_idx + 1, target_idx, 1)

FindAmong(nodes, pos, current_idx, target_idx, i) ==
  IF i > Len(nodes) THEN [ pos |-> <<>>, idx |-> current_idx ]
  ELSE LET r == find_node_at_mut(nodes[i], Append(pos, i), current_idx,
                                 target_idx)
       IN IF r.pos # <<>> THEN r
          ELSE FindAmong(nodes, pos, r.idx, target_idx, i + 1)

\* AppState::get_node_at_mut
get_node_at_mut(st, index) == FindAmong(st.tree_roots, <<>>, 0, index, 1).pos

\* AppState::get_flat_tree
get_flat_tree(st) == flatten_tree(st.tree_roots)

\* AppState::visible_count
visible_count(st) ==
  IF st.view_mode = "List" THEN Len(st.visible_projects)
  ELSE Len(get_flat_tree(st))

RECURSIVE count_checked_projects_Visible(_)
count_checked_projects_Visible(nodes) ==
  IF nodes = <<>> THEN 0
  ELSE (IF IsSome(Head(nodes).project) /\ Head(nodes).checked THEN 1 ELSE 0)
       + (IF Head(nodes).collapsed THEN 0
          ELSE count_checked_projects_Visible(Head(nodes).children))
       + count_checked_projects_Visible(Tail(nodes))

RECURSIVE count_checked_projects(_)
count_checked_projects(nodes) ==
  IF nodes = <<>> THEN 0
  ELSE (IF IsSome(Head(nodes).project) /\ Head(nodes).checked THEN 1 ELSE 0)
       + count_checked_projects(Head(nodes).children)
       + count_checked_projects(Tail(nodes))

RECURSIVE sum_checked_size(_)
sum_checked_size(nodes) ==
  IF nodes = <<>> THEN 0
  ELSE (IF IsSome(Head(nodes).project) /\ Head(nodes).checked
        THEN Head(nodes).project.total_size ELSE 0)
       + sum_checked_size(Head(nodes).children)
       + sum_checked_size(Tail(nodes))

RECURSIVE collect_checked_projects(_)
collect_checked_projects(nodes) ==
  IF nodes = <<>> THEN <<>>
  ELSE (IF Head(nodes).checked /\ IsSome(Head(nodes).project)
        THEN << Head(nodes).project >> ELSE <<>>)
       \o collect_checked_projects(Head(nodes).children)
       \o collect_checked_projects(Tail(nodes))

\* AppState::selected_count
selected_count(st) ==
  IF st.view_mode = "List" THEN Cardinality(st.selected_projects)
  ELSE count_checked_projects(st.tree_roots)

\* the orders in which a HashSet<usize> may iterate
RECURSIVE Orders(_)
Orders(S) ==
  IF S = {} THEN { <<>> }
  ELSE UNION { { <<x>> \o o : o \in Orders(S \ {x}) } : x \in S }

\* selected_projects.iter().filter_map(|&idx| visible_projects.get(idx))
RECURSIVE FilterMapVisible(_, _)
FilterMapVisible(st, order) ==
  IF order = <<>> THEN <<>>
  ELSE (IF Head(order) < Len(st.visible_projects)
        THEN << st.visible_projects[Head(order) + 1] >> ELSE <<>>)
       \o FilterMapVisible(st, Tail(order))

RECURSIVE SumSizes(_)
SumSizes(ps) ==
  IF ps = <<>> THEN 0 ELSE Head(ps).total_size + SumSizes(Tail(ps))

\* AppState::total_selected_size
total_selected_size(st) ==
  IF st.view_mode = "List"
  THEN SumSizes(FilterMapVisible(st,
                  CHOOSE o \in Orders(st.selected_projects) : TRUE))
  ELSE sum_checked_size(st.tree_roots)

\* AppState::get_selected_projects; order is the iteration order of the
\* hash set, which List mode goes by
get_selected_projects(st, order) ==
  IF st.view_mode = "List" THEN FilterMapVisible(st, order)
  ELSE collect_checked_projects(st.tree_roots)

SortLeq_SizeOnly(mode, a, b) == a.total_size >= b.total_size

\* the comparison sort_by_key / sort_by is given for a sort mode
SortLeq(mode, a, b) ==
  CASE mode = "SizeDesc" -> a.total_size >= b.total_size
    [] mode = "SizeAsc"  -> a.total_size <= b.total_size
    [] mode = "NameAsc"  -> PathLeq(a.root_path, b.root_path)
    [] mode = "NameDesc" -> PathLeq(b.root_path, a.root_path)

InsertSorted(mode, sorted, p) ==
  LET n == Cardinality({ j \in 1..Len(sorted) : SortLeq(mode, sorted[j], p) })
  IN SubSeq(sorted, 1, n) \o <<p>> \o SubSeq(sorted, n + 1, Len(sorted))

\* the stable sort of the filtered projects
RECURSIVE SortProjects(_, _)
SortProjects(mode, ps) ==
  IF ps = <<>> THEN <<>>
  ELSE InsertSorted(mode, SortProjects(mode, SubSeq(ps, 1, Len(ps) - 1)),
                    ps[Len(ps)])

\* the filter step of refresh_visible
FilterProjects(mode, ps) ==
  LET Keep(p) == FilterMatches(mode, p) IN SelectSeq(ps, Keep)

\* the clamp at the end of refresh_visible
ClampIndex(st) ==
  LET count == visible_count(st)
  IN IF st.selected_index >= count /\ count > 0
     THEN [ st EXCEPT !.selected_index = count - 1 ]
     ELSE st

\* AppState::refresh_visible
refresh_visible(st) ==
  LET filtered == FilterProjects(st.filter_mode, st.all_projects)
  IN ClampIndex(
       IF st.view_mode = "List"
       THEN [ st EXCEPT !.visible_projects =
                          SortProjects(st.sort_mode, filtered) ]
       ELSE [ st EXCEPT !.tree_roots = build_tree(filtered, st.scan_path) ])

\* AppState::add_project
add_project(st, project) ==
  refresh_visible([ st EXCEPT !.all_projects = Append(@, project) ])

\* AppState::finish_scan
finish_scan(st) == refresh_visible([ st EXCEPT !.scanning = FALSE ])

toggle_view_mode_KeepCursor(st) ==
  refresh_visible(
    [ st EXCEPT !.view_mode = IF @ = "List" THEN "Tree" ELSE "List" ])

toggle_view_mode_NoRefresh(st) ==
  [ st EXCEPT !.view_mode = IF @ = "List" THEN "Tree" ELSE "List",
              !.selected_index = 0 ]

\* AppState::toggle_view_mode
toggle_view_mode(st) ==
  refresh_visible(
    [ st EXCEPT !.view_mode = IF @ = "List" THEN "Tree" ELSE "List",
                !.selected_index = 0 ])

toggle_expand_Leaves(st) ==
  IF st.view_mode = "List" THEN st
  ELSE LET pos == get_node_at_mut(st, st.selected_index)
       IN IF pos = <<>> THEN st
          ELSE LET node == NodeAt(st.tree_roots, pos)
               IN [ st EXCEPT !.tree_roots =
                      ReplaceAt(@, pos,
                        [ node EXCEPT !.collapsed = ~node.collapsed ]) ]

\* AppState::toggle_expand
toggle_expand(st) ==
  IF st.view_mode = "List" THEN st
  ELSE LET pos == get_node_at_mut(st, st.selected_index)
       IN IF pos = <<>> THEN st
          ELSE LET node == NodeAt(st.tree_roots, pos)
               IN IF node.children # <<>>
                  THEN [ st EXCEPT !.tree_roots =
                           ReplaceAt(@, pos,
                             [ node EXCEPT !.collapsed = ~node.collapsed ]) ]
                  ELSE st

toggle_selection_AddOnly(st) ==
  IF st.view_mode = "List"
  THEN IF st.visible_projects = <<>> THEN st
       ELSE [ st EXCEPT !.selected_projects = @ \cup {st.selected_index} ]
  ELSE LET pos == get_node_at_mut(st, st.selected_index)
       IN IF pos = <<>> THEN st
          ELSE LET node == NodeAt(st.tree_roots, pos)
               IN [ st EXCEPT !.tree_roots =
                      ReplaceAt(@, pos, set_checked(node, ~node.checked)) ]

\* AppState::toggle_selection
toggle_selection(st) ==
  IF st.view_mode = "List"
  THEN IF st.visible_projects = <<>> THEN st
       ELSE IF st.selected_index \in st.selected_projects
            THEN [ st EXCEPT !.selected_projects = @ \ {st.selected_index} ]
            ELSE [ st EXCEPT !.selected_projects = @ \cup {st.selected_index} ]
  ELSE LET pos == get_node_at_mut(st, st.selected_index)
       IN IF pos = <<>> THEN st
          ELSE LET node == NodeAt(st.tree_roots, pos)
               IN [ st EXCEPT !.tree_roots =
                      ReplaceAt(@, pos, set_checked(node, ~node.checked)) ]

\* AppState::confirm_deletion
confirm_deletion(st) == [ st EXCEPT !.deletion_confirmed = TRUE ]

\* AppState::move_up
move_up(st) ==
  IF st.selected_index > 0
  THEN [ st EXCEPT !.selected_index = @ - 1 ] ELSE st

move_down_NoBound(st) == [ st EXCEPT !.selected_index = @ + 1 ]

\* AppState::move_down
move_down(st) ==
  IF st.selected_index + 1 < visible_count(st)
  THEN [ st EXCEPT !.selected_index = @ + 1 ] ELSE st

toggle_sort_NoRefresh(st) == [ st EXCEPT !.sort_mode = SortNext(@) ]

\* AppState::toggle_sort
toggle_sort(st) ==
  refresh_visible([ st EXCEPT !.sort_mode = SortNext(@) ])

cycle_filter_KeepSelection(st) ==
  refresh_visible([ st EXCEPT !.filter_mode = FilterNext(@) ])

cycle_filter_KeepRows(st) ==
  refresh_visible(
    [ st EXCEPT !.filter_mode = FilterNext(@),
                !.selected_index = 0 ])

\* AppState::cycle_filter
cycle_filter(st) ==
  refresh_visible(
    [ st EXCEPT !.filter_mode = FilterNext(@),
                !.selected_index = 0,
                !.selected_projects = {} ])

\* AppState::current_project (NoProject for None)
current_project(st) ==
  IF st.view_mode = "List"
  THEN IF st.selected_index < Len(st.visible_projects)
       THEN st.visible_projects[st.selected_index + 1] ELSE NoProject
  ELSE LET flat == get_flat_tree(st)
       IN IF st.selected_index < Len(flat)
          THEN flat[st.selected_index + 1].node.project ELSE NoProject

----------------------------------------------------------------------------
(* Scanner::scan *)

\* no deletion step has met the file system
NoDelEnv == [ missing |-> {}, failing |-> {} ]

\* the interactive session is not part of the run
TuiIdle ==
  /\ dry_run = FALSE
  /\ feed = {}
  /\ analyzing = {}
  /\ feedComplete = FALSE
  /\ rxQueue = <<>>
  /\ state = AppStateNew(ScanRoot)
  /\ tuiPc = "idle"
  /\ deleted = {}
  /\ tuiResult = "none"
  /\ delEnv = NoDelEnv

InitFs ==
  \E M \in SUBSET Markable :
    /\ Cardinality(M) <= MaxMarked
    /\ \E f \in [M -> MarkerChoices] :
         fsMarkers = [ d \in FsDirs |-> IF d \in M THEN f[d] ELSE {} ]

InitScan ==
  /\ InitFs
  /\ pc = "discovery"
  /\ readDirs = {}
  /\ walkStack = << {ScanRoot} >>
  /\ walkErr = {}
  /\ candidates = <<>>
  /\ valid_projects = <<>>
  /\ ignored_prefixes = <<>>
  /\ sizePc = <<>>
  /\ sizeErr = <<>>
  /\ projects = <<>>
  /\ events = <<>>
  /\ rxAlive = TRUE
  /\ sendFailed = FALSE
  /\ scanResult = "none"
  /\ TuiIdle

\* the walker's stack after handing out d: its children first, no empty level
StackAfter(stack, d) ==
  LET rest == IF Head(stack) = {d} THEN Tail(stack)
              ELSE << Head(stack) \ {d} >> \o Tail(stack)
  IN IF Children(d) = {} THEN rest ELSE << Children(d) >> \o rest

\* the directories the iterator has not handed out yet: the pending
\* siblings and everything below them
Pending(stack) ==
  { d \in FsDirs : \E l \in 1..Len(stack) : \E e \in stack[l] :
                     StartsWith(d, e) }

\* the iterator goes on once the pool has read every directory it has
\* handed out
ReadUpTo(stack, read) == (FsDirs \ Pending(stack)) \subseteq read

\* a pool thread reads directory d, whose parent has been read, and runs
\* process_read_dir: Scanning(d) is sent, best effort
ReadDir(d) ==
  /\ pc = "discovery"
  /\ d \notin readDirs
  /\ d = ScanRoot \/ Parent(d) \in readDirs
  /\ readDirs' = readDirs \cup {d}
  /\ events' = Sent(events, rxAlive, ScanningEvent(d))
  /\ sendFailed' = (sendFailed \/ ~rxAlive)
  /\ UNCHANGED tuiVars
  /\ UNCHANGED <<fsMarkers, pc, walkStack, walkErr, candidates,
                 valid_projects, ignored_prefixes, sizePc, sizeErr, projects,
                 rxAlive, scanResult>>

\* one round of the for-loop: the iterator hands out d as Ok(entry), one of
\* the pending siblings in the order read_dir listed them, which no sort
\* fixes
WalkNext(d) ==
  /\ pc = "discovery"
  /\ walkStack # <<>>
  /\ d \in Head(walkStack)
  /\ ReadUpTo(walkStack, readDirs)
  /\ candidates' = PushCandidate(candidates, d)
  /\ walkStack' = StackAfter(walkStack, d)
  /\ UNCHANGED tuiVars
  /\ UNCHANGED <<fsMarkers, readDirs, pc, walkErr, valid_projects,
                 ignored_prefixes, sizePc, sizeErr, projects, events,
                 rxAlive, sendFailed, scanResult>>

\* the iterator yields Err for entry d: `let entry = entry?;` returns it
WalkFail(d) ==
  /\ pc = "discovery"
  /\ walkStack # <<>>
  /\ d \in Head(walkStack)
  /\ ReadUpTo(walkStack, readDirs)
  /\ walkErr' = walkErr \cup {d}
  /\ pc' = "done"
  /\ scanResult' = "ErrWalk"
  /\ UNCHANGED tuiVars
  /\ UNCHANGED <<fsMarkers, readDirs, walkStack, candidates, valid_projects,
                 ignored_prefixes, sizePc, sizeErr, projects, events,
                 rxAlive, sendFailed>>

Deduplicate_Early ==
  /\ pc = "discovery"
  /\ LET r == DedupLoop(SortByDepth(candidates), 1, <<>>, <<>>)
     IN /\ valid_projects' = r.valid
        /\ ignored_prefixes' = r.prefixes
        /\ sizePc' = [ i \in 1..Len(r.valid) |-> "todo" ]
        /\ sizeErr' = [ i \in 1..Len(r.valid) |-> {} ]
        /\ projects' = [ i \in 1..Len(r.valid) |-> NoProject ]
  /\ pc' = "sizing"
  /\ UNCHANGED tuiVars
  /\ UNCHANGED <<fsMarkers, readDirs, walkStack, walkErr, candidates, events, rxAlive,
                 sendFailed, scanResult>>

\* the walker is exhausted: sort and deduplicate
Deduplicate ==
  /\ pc = "discovery"
  /\ walkStack = <<>>
  /\ ReadUpTo(walkStack, readDirs)
  /\ LET r == DedupLoop(SortByDepth(candidates), 1, <<>>, <<>>)
     IN /\ valid_projects' = r.valid
        /\ ignored_prefixes' = r.prefixes
        /\ sizePc' = [ i \in 1..Len(r.valid) |-> "todo" ]
        /\ sizeErr' = [ i \in 1..Len(r.valid) |-> {} ]
        /\ projects' = [ i \in 1..Len(r.valid) |-> NoProject ]
  /\ pc' = "sizing"
  /\ UNCHANGED tuiVars
  /\ UNCHANGED <<fsMarkers, readDirs, walkStack, walkErr, candidates, events, rxAlive,
                 sendFailed, scanResult>>

\* a pool thread enters the closure for candidate i: Scanning("Analyzing: ..")
StartSizing(i) ==
  /\ i \in DOMAIN sizePc
  /\ sizePc[i] = "todo"
  /\ sizePc' = [ sizePc EXCEPT ![i] = "analyzing" ]
  /\ events' = Sent(events, rxAlive, AnalyzingEvent(valid_projects[i].root))
  /\ sendFailed' = (sendFailed \/ ~rxAlive)
  /\ UNCHANGED tuiVars
  /\ UNCHANGED <<fsMarkers, readDirs, pc, walkStack, walkErr, candidates,
                 valid_projects, ignored_prefixes, sizeErr, projects,
                 rxAlive, scanResult>>

\* the closure finds the targets, sizes them (the walk of the targets in
\* bad fails) and sends ProjectFound
FinishSizing(i, bad) ==
  /\ i \in DOMAIN sizePc
  /\ sizePc[i] = "analyzing"
  /\ LET p == BuildProject(valid_projects[i], bad)
     IN /\ projects' = [ projects EXCEPT ![i] = p ]
        /\ events' = SendProjectFound(events, rxAlive, p)
  /\ sizeErr' = [ sizeErr EXCEPT ![i] = bad ]
  /\ sendFailed' = (sendFailed \/ ~rxAlive)
  /\ sizePc' = [ sizePc EXCEPT ![i] = "done" ]
  /\ UNCHANGED tuiVars
  /\ UNCHANGED <<fsMarkers, readDirs, pc, walkStack, walkErr, candidates,
                 valid_projects, ignored_prefixes, rxAlive, scanResult>>

\* the size walk fails in no target or in one of the existing targets
BadChoices(i) ==
  LET ts == find_targets(valid_projects[i].root, valid_projects[i].strategy_idx)
  IN {{}} \cup { {ts[k]} : k \in 1..Len(ts) }

\* after collect(): tx.send(Complete)?; Ok(projects)
SendComplete ==
  /\ pc = "sizing"
  /\ AllSized(sizePc)
  /\ events' = Sent(events, rxAlive, CompleteEvent)
  /\ sendFailed' = (sendFailed \/ ~rxAlive)
  /\ scanResult' = CompleteResult(rxAlive)
  /\ pc' = "done"
  /\ UNCHANGED tuiVars
  /\ UNCHANGED <<fsMarkers, readDirs, walkStack, walkErr, candidates, valid_projects,
                 ignored_prefixes, sizePc, sizeErr, projects, rxAlive>>

\* the other end of the channel goes away while the scan runs
DropReceiver ==
  /\ pc # "done"
  /\ rxAlive
  /\ rxAlive' = FALSE
  /\ UNCHANGED tuiVars
  /\ UNCHANGED <<fsMarkers, readDirs, pc, walkStack, walkErr, candidates,
                 valid_projects, ignored_prefixes, sizePc, sizeErr, projects,
                 events, sendFailed, scanResult>>

Init == InitScan


Next ==
  \/ \E d \in FsDirs : ReadDir(d)
  \/ \E d \in FsDirs : WalkNext(d)
  \/ \E d \in FsDirs : WalkFail(d)
  \/ Deduplicate
  \/ \E i \in DOMAIN sizePc : StartSizing(i)
  \/ \E i \in DOMAIN sizePc : \E bad \in BadChoices(i) : FinishSizing(i, bad)
  \/ SendComplete
  \/ DropReceiver

Spec == Init /\ [][Next]_vars

----------------------------------------------------------------------------
(* main.rs run_tui_mode and tui/mod.rs run_tui *)

Project(root, name, targets, size) ==
  [ root_path |-> root, strategy_name |-> name, targets |-> targets,
    total_size |-> size, risk_level |-> "Low" ]

\* the projects a scan may report to the session
TuiProjects ==
  { Project(<<"w", "a">>, "Node.js",
            << <<"w", "a", "node_modules">>, <<"w", "a", "build">> >>, 12),
    Project(<<"w", "a", "sub">>, "Rust", << <<"w", "a", "sub", "target">> >>, 32),
    Project(<<"w", "B">>, "Rust", << <<"w", "B", "target">> >>, 12) }

AppEvents ==
  { "Quit", "MoveUp", "MoveDown", "ToggleSelection", "ConfirmAction",
    "ToggleSort", "CycleFilter", "CloseModal", "ToggleViewMode",
    "ToggleExpand" }

ApplyScanEvent_SkipComplete(st, ev) ==
  CASE ev.type = "ProjectFound" -> add_project(st, ev.project)
    [] ev.type = "Scanning"     -> [ st EXCEPT !.scanning_path = ev.text ]
    [] ev.type = "Complete"     -> st

\* the match on scan_event in the drain loop
ApplyScanEvent(st, ev) ==
  CASE ev.type = "ProjectFound" -> add_project(st, ev.project)
    [] ev.type = "Scanning"     -> [ st EXCEPT !.scanning_path = ev.text ]
    [] ev.type = "Complete"     -> finish_scan(st)

DrainEvents_One(st, queue) ==
  IF queue = <<>> THEN st ELSE ApplyScanEvent(st, Head(queue))

\* while let Ok(scan_event) = rx.try_recv()
RECURSIVE DrainEvents(_, _)
DrainEvents(st, queue) ==
  IF queue = <<>> THEN st
  ELSE DrainEvents(ApplyScanEvent(st, Head(queue)), Tail(queue))

HandleModalInput_NoCount(st, ev) ==
  CASE ev = "ConfirmAction" ->
         [ st |-> confirm_deletion(st), quit |-> TRUE ]
    [] ev \in {"CloseModal", "Quit"} ->
         [ st |-> [ st EXCEPT !.show_confirmation = FALSE ], quit |-> FALSE ]
    [] OTHER -> [ st |-> st, quit |-> FALSE ]

\* the match on app_event while the confirmation modal is shown
HandleModalInput(st, ev) ==
  CASE ev = "ConfirmAction" ->
         IF selected_count(st) > 0
         THEN [ st |-> confirm_deletion(st), quit |-> TRUE ]
         ELSE [ st |-> [ st EXCEPT !.show_confirmation = FALSE ],
                quit |-> FALSE ]
    [] ev \in {"CloseModal", "Quit"} ->
         [ st |-> [ st EXCEPT !.show_confirmation = FALSE ], quit |-> FALSE ]
    [] OTHER -> [ st |-> st, quit |-> FALSE ]

\* the match on app_event in normal navigation
HandleNormalInput(st, ev) ==
  CASE ev = "Quit"            -> [ st |-> st, quit |-> TRUE ]
    [] ev = "MoveUp"          -> [ st |-> move_up(st), quit |-> FALSE ]
    [] ev = "MoveDown"        -> [ st |-> move_down(st), quit |-> FALSE ]
    [] ev = "ToggleSelection" -> [ st |-> toggle_selection(st), quit |-> FALSE ]
    [] ev = "ConfirmAction"   ->
         [ st |-> [ st EXCEPT !.show_confirmation = TRUE ], quit |-> FALSE ]
    [] ev = "ToggleSort"      -> [ st |-> toggle_sort(st), quit |-> FALSE ]
    [] ev = "CycleFilter"     -> [ st |-> cycle_filter(st), quit |-> FALSE ]
    [] ev = "ToggleViewMode"  -> [ st |-> toggle_view_mode(st), quit |-> FALSE ]
    [] ev = "ToggleExpand"    -> [ st |-> toggle_expand(st), quit |-> FALSE ]
    [] OTHER                  -> [ st |-> st, quit |-> FALSE ]

\* the input handling of one round of the main loop
HandleInput(st, ev) ==
  IF st.show_confirmation THEN HandleModalInput(st, ev)
  ELSE HandleNormalInput(st, ev)

DeletionRuns_Always(st, dry) == TRUE

\* `if final_state.deletion_confirmed`
DeletionRuns(st, dry) == st.deletion_confirmed

\* the targets of the selected projects in the order the loops visit them
RECURSIVE Worklist(_)
Worklist(selected) ==
  IF selected = <<>> THEN <<>>
  ELSE Head(selected).targets \o Worklist(Tail(selected))

\* target.exists() at the time the loop reaches it
TargetExists(target, removed, missing) ==
  /\ target \notin missing
  /\ \A r \in removed : ~StartsWith(target, r)

\* the deletion loops: remove_dir_all fails on `failing`, `?` returns the error
RECURSIVE DeleteLoop(_, _, _, _, _)
DeleteLoop(worklist, k, removed, missing, failing) ==
  IF k > Len(worklist) THEN [ removed |-> removed, ok |-> TRUE ]
  ELSE IF ~TargetExists(worklist[k], removed, missing)
       THEN DeleteLoop(worklist, k + 1, removed, missing, failing)
       ELSE IF worklist[k] \in failing
            THEN [ removed |-> removed, ok |-> FALSE ]
            ELSE DeleteLoop(worklist, k + 1, removed \cup {worklist[k]},
                            missing, failing)

InitTui ==
  /\ fsMarkers = [ d \in FsDirs |-> {} ]
  /\ pc = "discovery"
  /\ readDirs = {}
  /\ walkStack = <<>>
  /\ walkErr = {}
  /\ candidates = <<>>
  /\ valid_projects = <<>>
  /\ ignored_prefixes = <<>>
  /\ sizePc = <<>>
  /\ sizeErr = <<>>
  /\ projects = <<>>
  /\ events = <<>>
  /\ rxAlive = TRUE
  /\ sendFailed = FALSE
  /\ scanResult = "none"
  /\ dry_run \in BOOLEAN
  /\ feed \in { S \in SUBSET TuiProjects : Cardinality(S) <= MaxFeed }
  /\ analyzing = {}
  /\ feedComplete = FALSE
  /\ rxQueue = <<>>
  /\ state = AppStateNew(ScanRoot)
  /\ tuiPc = "drain"
  /\ deleted = {}
  /\ tuiResult = "none"
  /\ delEnv = NoDelEnv

\* The scanner thread runs beside the loop and sends whenever it gets there:
\* before the drain of a round, or while the loop renders and waits in
\* poll_event.  pc is the position of the thread.

\* a path and the directories above it
DirsAbove(q) == { SubSeq(q, 1, k) : k \in 1..Len(q) }

\* the directories of the tree the scanner walks for a set of projects: the
\* scan root, the project roots, their targets and what lies above them
TuiDirs(ps) ==
  {ScanRoot} \cup
  UNION { DirsAbove(p.root_path) \cup
          UNION { DirsAbove(p.targets[k]) : k \in 1..Len(p.targets) } :
          p \in ps }

\* run_tui owns the Receiver until it returns
LoopHoldsReceiver == tuiPc \in {"drain", "poll"}

\* the scanner thread lives until the process ends
ScannerLives == tuiPc \in {"drain", "poll", "exited"}

\* the channel after a send: the event is queued, or lost once the Receiver
\* is gone
Delivered(queue, ev) == IF LoopHoldsReceiver THEN Append(queue, ev) ELSE queue

\* discovery: the walker reads directory d, whose parent it has read, and
\* process_read_dir sends Scanning(d)
ScannerReads(d) ==
  /\ ScannerLives
  /\ pc = "discovery"
  /\ d \in TuiDirs(feed) \ readDirs
  /\ d = ScanRoot \/ Parent(d) \in readDirs
  /\ readDirs' = readDirs \cup {d}
  /\ rxQueue' = Delivered(rxQueue, ScanningEvent(d))
  /\ UNCHANGED <<dry_run, feed, analyzing, feedComplete, state, tuiPc,
                 deleted, tuiResult, delEnv>>
  /\ UNCHANGED <<fsMarkers, pc, walkStack, walkErr, candidates,
                 valid_projects, ignored_prefixes, sizePc, sizeErr, projects,
                 events, rxAlive, sendFailed, scanResult>>

\* a sizing closure starts on a project once the whole tree is read:
\* Scanning("Analyzing: <root>") is sent
ScannerAnalyzes(p) ==
  /\ ScannerLives
  /\ pc \in {"discovery", "sizing"}
  /\ p \in feed
  /\ TuiDirs(feed) \subseteq readDirs
  /\ pc' = "sizing"
  /\ feed' = feed \ {p}
  /\ analyzing' = analyzing \cup {p}
  /\ rxQueue' = Delivered(rxQueue, AnalyzingEvent(p.root_path))
  /\ UNCHANGED <<dry_run, feedComplete, state, tuiPc, deleted, tuiResult>>
  /\ UNCHANGED delEnv
  /\ UNCHANGED <<fsMarkers, readDirs, walkStack, walkErr, candidates,
                 valid_projects, ignored_prefixes, sizePc, sizeErr, projects,
                 events, rxAlive, sendFailed, scanResult>>

\* the closure has sized the project: ProjectFound is sent
ScannerReports(p) ==
  /\ ScannerLives
  /\ p \in analyzing
  /\ analyzing' = analyzing \ {p}
  /\ rxQueue' = Delivered(rxQueue, ProjectFoundEvent(p))
  /\ UNCHANGED <<dry_run, feed, feedComplete, state, tuiPc, deleted,
                 tuiResult>>
  /\ UNCHANGED delEnv
  /\ UNCHANGED scanVars

\* the scanner thread sends Complete after the last project and scan
\* returns: Ok, or the error of the send once the Receiver is gone
ScannerCompletes ==
  /\ ScannerLives
  /\ pc \in {"discovery", "sizing"}
  /\ feed = {}
  /\ analyzing = {}
  /\ TuiDirs(feed) \subseteq readDirs
  /\ pc' = "done"
  /\ feedComplete' = LoopHoldsReceiver
  /\ scanResult' = CompleteResult(LoopHoldsReceiver)
  /\ rxQueue' = Delivered(rxQueue, CompleteEvent)
  /\ UNCHANGED <<dry_run, feed, analyzing, state, tuiPc,
                 deleted, tuiResult>>
  /\ UNCHANGED delEnv
  /\ UNCHANGED <<fsMarkers, readDirs, walkStack, walkErr, candidates,
                 valid_projects, ignored_prefixes, sizePc, sizeErr, projects,
                 events, rxAlive, sendFailed>>

\* scan returns Err from discovery, before any project is sized: the thread
\* ends by `let _ = scanner.scan(..)`, the Sender is dropped, no event follows
ScannerFails ==
  /\ ScannerLives
  /\ pc = "discovery"
  /\ pc' = "done"
  /\ scanResult' = "ErrWalk"
  /\ feed' = {}
  /\ UNCHANGED <<dry_run, analyzing, feedComplete, rxQueue, state, tuiPc,
                 deleted, tuiResult, delEnv>>
  /\ UNCHANGED <<fsMarkers, readDirs, walkStack, walkErr, candidates,
                 valid_projects, ignored_prefixes, sizePc, sizeErr, projects,
                 events, rxAlive, sendFailed>>

\* the head of a round: every pending scan event is applied, then the frame
\* is drawn
Drain ==
  /\ tuiPc = "drain"
  /\ state' = DrainEvents(state, rxQueue)
  /\ rxQueue' = <<>>
  /\ tuiPc' = "poll"
  /\ UNCHANGED <<dry_run, analyzing, feed, feedComplete,
                 deleted, tuiResult>>
  /\ UNCHANGED delEnv
  /\ UNCHANGED scanVars

\* poll_event returned an AppEvent: it is handled, the loop goes on or ends
Input(ev) ==
  /\ tuiPc = "poll"
  /\ LET r == HandleInput(state, ev)
     IN /\ state' = r.st
        /\ tuiPc' = IF r.quit THEN "exited" ELSE "drain"
  /\ UNCHANGED <<dry_run, analyzing, feed, feedComplete, rxQueue, deleted, tuiResult>>
  /\ UNCHANGED delEnv
  /\ UNCHANGED scanVars

\* poll_event returned None: no key within the timeout, or an unmapped one
NoInput ==
  /\ tuiPc = "poll"
  /\ tuiPc' = "drain"
  /\ UNCHANGED <<dry_run, analyzing, feed, feedComplete, rxQueue, state, deleted, tuiResult>>
  /\ UNCHANGED delEnv
  /\ UNCHANGED scanVars

\* run_tui returned and the user had confirmed: the deletion loops
DeleteSelected ==
  /\ tuiPc = "exited"
  /\ DeletionRuns(state, dry_run)
  /\ \E order \in Orders(state.selected_projects) :
       LET worklist == Worklist(get_selected_projects(state, order))
           targets  == { worklist[k] : k \in 1..Len(worklist) }
       IN \E missing \in { {} } \cup { {t} : t \in targets } :
          \E failing \in { {} } \cup { {t} : t \in targets \ missing } :
            LET r == DeleteLoop(worklist, 1, {}, missing, failing)
            IN /\ deleted' = r.removed
               /\ tuiResult' = IF r.ok THEN "cleaned" ELSE "error"
               /\ delEnv' = [ missing |-> missing, failing |-> failing ]
  /\ tuiPc' = "finished"
  /\ UNCHANGED <<dry_run, analyzing, feed, feedComplete, rxQueue, state>>
  /\ UNCHANGED scanVars

\* run_tui returned without a confirmation: "Exited without making changes"
ExitUnchanged ==
  /\ tuiPc = "exited"
  /\ ~DeletionRuns(state, dry_run)
  /\ tuiResult' = "unchanged"
  /\ tuiPc' = "finished"
  /\ UNCHANGED <<dry_run, analyzing, feed, feedComplete, rxQueue, state, deleted>>
  /\ UNCHANGED delEnv
  /\ UNCHANGED scanVars

TuiNext ==
  \/ \E d \in TuiDirs(TuiProjects) : ScannerReads(d)
  \/ \E p \in TuiProjects : ScannerAnalyzes(p)
  \/ \E p \in TuiProjects : ScannerReports(p)
  \/ ScannerCompletes
  \/ ScannerFails
  \/ Drain
  \/ \E ev \in AppEvents : Input(ev)
  \/ NoInput
  \/ DeleteSelected
  \/ ExitUnchanged

TuiSpec == InitTui /\ [][TuiNext]_vars

----------------------------------------------------------------------------
(* AppState under its operations alone: the projects arrive by add_project, *)
(* finish_scan follows the last one, the navigation intents come in any     *)
(* order.  No modal, no deletion.                                           *)

\* the intents run_tui maps to AppState operations in normal navigation
ViewOps ==
  { "MoveUp", "MoveDown", "ToggleSelection", "ToggleSort", "CycleFilter",
    "ToggleViewMode", "ToggleExpand" }

InitView ==
  /\ fsMarkers = [ d \in FsDirs |-> {} ]
  /\ pc = "idle"
  /\ readDirs = {}
  /\ walkStack = <<>>
  /\ walkErr = {}
  /\ candidates = <<>>
  /\ valid_projects = <<>>
  /\ ignored_prefixes = <<>>
  /\ sizePc = <<>>
  /\ sizeErr = <<>>
  /\ projects = <<>>
  /\ events = <<>>
  /\ rxAlive = TRUE
  /\ sendFailed = FALSE
  /\ scanResult = "none"
  /\ dry_run = FALSE
  /\ feed \in { S \in SUBSET TuiProjects : Cardinality(S) <= MaxView }
  /\ analyzing = {}
  /\ feedComplete = FALSE
  /\ rxQueue = <<>>
  /\ state = AppStateNew(ScanRoot)
  /\ tuiPc = "view"
  /\ deleted = {}
  /\ tuiResult = "none"
  /\ delEnv = NoDelEnv

\* ScanEvent::ProjectFound(project) is applied
AddProject(p) ==
  /\ tuiPc = "view"
  /\ p \in feed
  /\ feed' = feed \ {p}
  /\ state' = ApplyScanEvent(state, ProjectFoundEvent(p))
  /\ UNCHANGED <<dry_run, analyzing, feedComplete, rxQueue, tuiPc, deleted, tuiResult>>
  /\ UNCHANGED delEnv
  /\ UNCHANGED scanVars

\* ScanEvent::Complete is applied
FinishScan ==
  /\ tuiPc = "view"
  /\ feed = {}
  /\ ~feedComplete
  /\ feedComplete' = TRUE
  /\ state' = ApplyScanEvent(state, CompleteEvent)
  /\ UNCHANGED <<dry_run, analyzing, feed, rxQueue, tuiPc, deleted, tuiResult>>
  /\ UNCHANGED delEnv
  /\ UNCHANGED scanVars

\* a navigation intent is handled
Operate(ev) ==
  /\ tuiPc = "view"
  /\ state' = HandleNormalInput(state, ev).st
  /\ UNCHANGED <<dry_run, analyzing, feed, feedComplete, rxQueue, tuiPc, deleted,
                 tuiResult>>
  /\ UNCHANGED delEnv
  /\ UNCHANGED scanVars

ViewNext ==
  \/ \E p \in TuiProjects : AddProject(p)
  \/ FinishScan
  \/ \E ev \in ViewOps : Operate(ev)

ViewSpec == InitView /\ [][ViewNext]_vars

----------------------------------------------------------------------------
(* The main loop of run_tui beside the scanner thread, with the intents    *)
(* that leave the project list alone.  poll_event returns after 100 ms at  *)
(* the latest, with an intent or without, so the second half of a round is *)
(* taken when it is due.                                                   *)

\* the intents of this session
LoopIntents == { "Quit", "ToggleViewMode", "ToggleSort" }

InitLoop ==
  /\ fsMarkers = [ d \in FsDirs |-> {} ]
  /\ pc = "discovery"
  /\ readDirs = {}
  /\ walkStack = <<>>
  /\ walkErr = {}
  /\ candidates = <<>>
  /\ valid_projects = <<>>
  /\ ignored_prefixes = <<>>
  /\ sizePc = <<>>
  /\ sizeErr = <<>>
  /\ projects = <<>>
  /\ events = <<>>
  /\ rxAlive = TRUE
  /\ sendFailed = FALSE
  /\ scanResult = "none"
  /\ dry_run = FALSE
  /\ feed \in { S \in SUBSET TuiProjects : Cardinality(S) <= MaxLoop }
  /\ analyzing = {}
  /\ feedComplete = FALSE
  /\ rxQueue = <<>>
  /\ state = AppStateNew(ScanRoot)
  /\ tuiPc = "drain"
  /\ deleted = {}
  /\ tuiResult = "none"
  /\ delEnv = NoDelEnv

\* the second half of a round: poll_event returns an intent or None
Poll == NoInput \/ \E ev \in LoopIntents : Input(ev)

LoopNext ==
  \/ \E d \in TuiDirs(TuiProjects) : ScannerReads(d)
  \/ \E p \in TuiProjects : ScannerAnalyzes(p)
  \/ \E p \in TuiProjects : ScannerReports(p)
  \/ ScannerCompletes
  \/ ScannerFails
  \/ Drain
  \/ \E ev \in LoopIntents : Input(ev)
  \/ NoInput
  \/ ExitUnchanged

LoopSpec ==
  InitLoop /\ [][LoopNext]_vars /\ WF_vars(Poll)

----------------------------------------------------------------------------
(* build_tree on the project lists a scan can deliver, the scan root among *)
(* the projects: the projects arrive in any order and the view is switched *)
(* between List and Tree, which rebuilds the forest from all_projects; in  *)
(* Tree view the cursor is moved and folders are collapsed and expanded.   *)

\* the projects of these scans; the sizes are distinct powers of two
TreeProjects ==
  { Project(<<"w">>, "Rust", << <<"w", "target">> >>, 1),
    Project(<<"w", "w">>, "Rust", << <<"w", "w", "target">> >>, 2),
    Project(<<"w", "a">>, "Node.js", << <<"w", "a", "node_modules">> >>, 4),
    Project(<<"w", "a", "sub">>, "Rust", << <<"w", "a", "sub", "target">> >>, 8),
    Project(<<"w", "B">>, "Rust", << <<"w", "B", "target">> >>, 16),
    Project(<<"w", "a", "app", "b">>, "Rust",
            << <<"w", "a", "app", "b", "target">> >>, 32),
    Project(<<"w", "a", "B", "b">>, "Rust",
            << <<"w", "a", "B", "b", "target">> >>, 64) }

\* the intents of these sessions
TreeOps == { "ToggleViewMode", "MoveDown", "ToggleExpand" }

InitTree ==
  /\ fsMarkers = [ d \in FsDirs |-> {} ]
  /\ pc = "idle"
  /\ readDirs = {}
  /\ walkStack = <<>>
  /\ walkErr = {}
  /\ candidates = <<>>
  /\ valid_projects = <<>>
  /\ ignored_prefixes = <<>>
  /\ sizePc = <<>>
  /\ sizeErr = <<>>
  /\ projects = <<>>
  /\ events = <<>>
  /\ rxAlive = TRUE
  /\ sendFailed = FALSE
  /\ scanResult = "none"
  /\ dry_run = FALSE
  /\ feed \in { S \in SUBSET TreeProjects : Cardinality(S) <= MaxTree }
  /\ analyzing = {}
  /\ feedComplete = FALSE
  /\ rxQueue = <<>>
  /\ state = AppStateNew(ScanRoot)
  /\ tuiPc = "view"
  /\ deleted = {}
  /\ tuiResult = "none"
  /\ delEnv = NoDelEnv

TreeNext ==
  \/ \E p \in TreeProjects : AddProject(p)
  \/ FinishScan
  \/ \E ev \in TreeOps : Operate(ev)

TreeSpec == InitTree /\ [][TreeNext]_vars

----------------------------------------------------------------------------
(* Properties of the scan *)

\* the indices of the accepted candidates whose closure has finished
SizedIdx == { i \in DOMAIN sizePc : sizePc[i] = "done" }

\* the positions of the ProjectFound events on the channel
FoundPos == { k \in 1..Len(events) : events[k].type = "ProjectFound" }

\* the candidates of discovery, as a set of indices
CandIdx == 1..Len(candidates)

\* deduplication has run
Deduplicated == pc = "sizing" \/ scanResult \in {"Ok", "ErrSend"}

\* path q is path p or lies below it
AtOrBelow(q, p) == StartsWith(q, p)

\* C1: for every two distinct reported projects A and B, in the list the
\* scan builds and in the ProjectFound events, the root of B is not at or
\* below any path of A.targets.
C1_NoProjectInsideTarget ==
  /\ \A i \in SizedIdx : \A j \in SizedIdx \ {i} :
       \A k \in 1..Len(projects[i].targets) :
         ~AtOrBelow(projects[j].root_path, projects[i].targets[k])
  /\ \A m \in FoundPos : \A n \in FoundPos \ {m} :
       \A k \in 1..Len(events[m].project.targets) :
         ~AtOrBelow(events[n].project.root_path, events[m].project.targets[k])

\* C1 witness: a scan returned Ok, reported a project, and a candidate that
\* lies inside a target of that project was found by discovery and dropped.
C1_SuppressedUnderTarget ==
  /\ scanResult = "Ok"
  /\ \E c \in CandIdx : \E i \in SizedIdx :
       /\ \A j \in DOMAIN valid_projects : valid_projects[j] # candidates[c]
       /\ \E k \in 1..Len(projects[i].targets) :
            AtOrBelow(candidates[c].root, projects[i].targets[k])
       /\ \E m \in FoundPos : events[m].project = projects[i]

\* candidate c lies at or below a target path of accepted candidate a, and
\* a is shallower
UnderTargetOf(c, a) ==
  /\ ComponentsCount(a.root) < ComponentsCount(c.root)
  /\ \E k \in 1..Len(default_strategies[a.strategy_idx].targets) :
       AtOrBelow(c.root, a.root \o default_strategies[a.strategy_idx].targets[k])

\* candidate c is not at or below any target path of a shallower accepted one
FreeOfTargets(c) ==
  \A j \in DOMAIN valid_projects : ~UnderTargetOf(c, valid_projects[j])

\* C2: once deduplication has run, every candidate that is not at or below
\* a target path of a shallower accepted candidate is accepted, also when it
\* lies below the root of another accepted candidate; when the scan returns
\* Ok it is in the returned list and has a ProjectFound event.
C2_OnlyTargetsSuppress ==
  Deduplicated =>
    \A c \in CandIdx :
      FreeOfTargets(candidates[c]) =>
        /\ \E j \in DOMAIN valid_projects : valid_projects[j] = candidates[c]
        /\ scanResult = "Ok" =>
             /\ \E i \in SizedIdx : projects[i].root_path = candidates[c].root
             /\ \E m \in FoundPos :
                  events[m].project.root_path = candidates[c].root

\* C2 witness: a scan returned Ok and reported both the Node.js project w/a
\* and the Rust project w/a/app, which lies below the root of the first but
\* not below one of its targets.
C2_NestedSiblingReported ==
  /\ scanResult = "Ok"
  /\ \E i \in SizedIdx : \E j \in SizedIdx :
       /\ projects[i].root_path = <<"w", "a">>
       /\ projects[i].strategy_name = "Node.js"
       /\ projects[j].root_path = <<"w", "a", "app">>
       /\ projects[j].strategy_name = "Rust"
       /\ \E m \in FoundPos : events[m].project = projects[i]
       /\ \E n \in FoundPos : events[n].project = projects[j]

\* the number of ProjectFound events on the channel for a root
FoundCount(root) ==
  Cardinality({ m \in FoundPos : events[m].project.root_path = root })

\* C5: while the receiver is alive, the channel holds exactly one
\* ProjectFound for each accepted candidate whose closure has finished and
\* none for the others, so a scan that returns Ok has emitted exactly one per
\* accepted project; every ProjectFound carries the project built for an
\* accepted candidate, never a suppressed one.
C5_OneProjectFoundEach ==
  /\ \A m \in FoundPos :
       \E i \in SizedIdx :
         /\ events[m].project = projects[i]
         /\ projects[i].root_path = valid_projects[i].root
  /\ rxAlive =>
       \A i \in DOMAIN sizePc :
         FoundCount(valid_projects[i].root) =
           IF sizePc[i] = "done" THEN 1 ELSE 0
  /\ scanResult = "Ok" =>
       \A i \in DOMAIN valid_projects :
         FoundCount(valid_projects[i].root) = 1

\* C5 witness: a scan returned Ok for two accepted projects and the channel
\* holds two ProjectFound events, one for each.
C5_TwoProjectsFound ==
  /\ scanResult = "Ok"
  /\ Len(valid_projects) = MaxMarked
  /\ Cardinality(FoundPos) = MaxMarked
  /\ \A i \in DOMAIN valid_projects :
       \E m \in FoundPos : events[m].project = projects[i]

\* the positions of the Complete events on the channel
CompletePos == { k \in 1..Len(events) : events[k].type = "Complete" }

\* C6: a Complete event is never followed by another event, and a scan that
\* returned Ok has emitted exactly one Complete, the last event of the
\* channel.
C6_CompleteIsLast ==
  /\ \A k \in CompletePos : k = Len(events)
  /\ scanResult = "Ok" => CompletePos = {Len(events)} /\ Len(events) > 0

\* C6 witness: a scan returned Ok after discovery events, an Analyzing event
\* and a ProjectFound event, and the Complete event closes the channel.
C6_CompleteAfterProjects ==
  /\ scanResult = "Ok"
  /\ FoundPos # {}
  /\ \E k \in 1..Len(events) :
       events[k].type = "Scanning" /\ k > 1 /\ events[k - 1].type = "ProjectFound"
  /\ events[Len(events)].type = "Complete"

\* the target subpaths of candidate i's strategy that exist under its root
ExistingTargets(i) ==
  LET c  == valid_projects[i]
      ts == default_strategies[c.strategy_idx].targets
  IN { c.root \o ts[k] : k \in { n \in 1..Len(ts) : (c.root \o ts[n]) \in FsDirs } }

\* the paths of a project's targets
TargetSet(p) == { p.targets[k] : k \in 1..Len(p.targets) }

\* the bytes of the regular files at or below a set of directories
BytesUnder(dirs) ==
  SumBytes({ d \in FsDirs : \E t \in dirs : AtOrBelow(d, t) })

\* the targets of the project built for candidate i are the existing targets
TargetsAreExisting(i) ==
  /\ TargetSet(projects[i]) = ExistingTargets(i)
  /\ Len(projects[i].targets) = Cardinality(ExistingTargets(i))

\* C7 as stated: for every reported project, targets is exactly the existing
\* target subpaths of the strategy and total_size is the sum of the sizes of
\* the regular files under them.
C7_SizeIsSumAlways ==
  \A i \in SizedIdx :
    /\ TargetsAreExisting(i)
    /\ projects[i].total_size = BytesUnder(TargetSet(projects[i]))

\* the part of C7 the code keeps: for every reported project, targets is
\* exactly the existing target subpaths of the strategy, and a project whose
\* size computation met no error has the sum of the sizes of the regular
\* files under them as its total_size, whatever lies outside them.
C7_SizeIsSumWhenWalked ==
  \A i \in SizedIdx :
    /\ TargetsAreExisting(i)
    /\ sizeErr[i] = {} =>
         projects[i].total_size = BytesUnder(TargetSet(projects[i]))

\* a scan returned Ok and reported a project some of whose strategy targets
\* do not exist, sized without error at more than zero.
C7_SomeTargetsMissing ==
  /\ scanResult = "Ok"
  /\ \E i \in SizedIdx :
       /\ sizeErr[i] = {}
       /\ Len(projects[i].targets) > 0
       /\ Len(projects[i].targets) <
            Len(default_strategies[valid_projects[i].strategy_idx].targets)
       /\ projects[i].total_size > 0
       /\ \E m \in FoundPos : events[m].project = projects[i]

\* C8 as stated: a traversal error on an entry below the scan root is
\* skipped, the scan still returns Ok and emits Complete.
C8_TraversalErrorSkipped ==
  (pc = "done" /\ rxAlive /\ walkErr # {} /\ ScanRoot \notin walkErr) =>
    /\ scanResult = "Ok"
    /\ CompletePos # {}

\* C9 as stated: when the size computation of one target fails, the project
\* is reported with the sum of the sizes of its other targets.
C9_PartialSizeOnError ==
  \A i \in SizedIdx :
    sizeErr[i] # {} =>
      projects[i].total_size = BytesUnder(TargetSet(projects[i]) \ sizeErr[i])

\* C10 as stated: after a failed send the scan sizes no further candidate,
\* and a scan whose send failed returns an error.
C10_StopsAfterFailedSend ==
  /\ [][sendFailed => sizePc' = sizePc]_vars
  /\ []((pc = "done" /\ sendFailed) => scanResult \in {"ErrSend", "ErrWalk"})

\* C10 amended: a failed send of a Scanning or ProjectFound event is ignored
\* and the scan goes on; a scan that ends after the receiver was dropped has
\* sized every accepted candidate unless discovery failed, and returns an
\* error, which comes from the send of Complete.
C10_ErrorOnlyAtComplete ==
  /\ (pc = "done" /\ ~rxAlive) => scanResult \in {"ErrSend", "ErrWalk"}
  /\ scanResult = "ErrSend" =>
       /\ ~rxAlive
       /\ CompletePos = {}
       /\ \A i \in DOMAIN valid_projects :
            /\ sizePc[i] = "done"
            /\ projects[i].root_path = valid_projects[i].root

\* C10 witness: the receiver was dropped before any project was sized; the
\* scan still sized its two accepted candidates, sent nothing for them, and
\* returned the error of the Complete send.
C10_SizedAfterDrop ==
  /\ scanResult = "ErrSend"
  /\ sendFailed
  /\ Len(valid_projects) = MaxMarked
  /\ FoundPos = {}
  /\ \A i \in DOMAIN valid_projects : projects[i].total_size > 0

----------------------------------------------------------------------------
(* Properties of the interactive session *)

\* C3 as stated: with --dry-run set no target directory is ever deleted.
C3_DryRunDeletesNothing == dry_run => deleted = {}

\* the step sets deletion_confirmed
BecomesConfirmed == ~state.deletion_confirmed /\ state'.deletion_confirmed

\* the step is the handling of a confirm intent while the modal is shown,
\* and of no other intent
ConfirmInModal ==
  /\ state.show_confirmation
  /\ tuiPc = "poll"
  /\ state' = HandleInput(state, "ConfirmAction").st
  /\ \A ev \in AppEvents \ {"ConfirmAction"} :
       ~HandleInput(state, ev).st.deletion_confirmed

\* C4: deletion_confirmed becomes true only by a confirm intent handled
\* while the confirmation modal is shown; targets are deleted only in a
\* session whose deletion_confirmed is true; a session that ends by a quit
\* or after the modal was closed reports no change and has deleted nothing.
C4_DeleteOnlyAfterConfirm ==
  /\ [][BecomesConfirmed => ConfirmInModal]_vars
  /\ [][deleted' # deleted => state.deletion_confirmed]_vars
  /\ [](deleted # {} => state.deletion_confirmed)
  /\ [](tuiResult = "unchanged" => (deleted = {} /\ ~state.deletion_confirmed))

\* C4 witness: a session in which the user selected a project and confirmed
\* in the modal has ended and its targets were deleted.
C4_DeletedAfterConfirm ==
  /\ tuiPc = "finished"
  /\ state.deletion_confirmed
  /\ state.show_confirmation
  /\ selected_count(state) > 0
  /\ deleted # {}

\* C11 as stated, for the interactive mode: a session whose scan returned an
\* error ends with a reported error.
C11_ScanFailureReported ==
  (tuiPc = "finished" /\ scanResult = "ErrWalk") => tuiResult = "error"

\* the strategy the registration order gives a directory with these markers
ExpectedStrategy(markers) ==
  IF "package.json" \in markers THEN "Node.js"
  ELSE IF "Cargo.toml" \in markers THEN "Rust"
  ELSE IF "pubspec.yaml" \in markers THEN "Flutter"
  ELSE IF markers \cap {"build.gradle", "build.gradle.kts"} # {} THEN "Android"
  ELSE ""

\* C18: a directory yields at most one candidate, and the candidate, the
\* project built for it and its ProjectFound event carry the first strategy
\* in the order Node.js, Rust, Flutter, Android whose marker the directory
\* holds; no directory is reported twice.
C18_FirstStrategyWins ==
  /\ \A i \in CandIdx : \A j \in CandIdx :
       candidates[i].root = candidates[j].root => i = j
  /\ \A i \in CandIdx :
       default_strategies[candidates[i].strategy_idx].name =
         ExpectedStrategy(fsMarkers[candidates[i].root])
  /\ \A i \in SizedIdx :
       projects[i].strategy_name =
         ExpectedStrategy(fsMarkers[projects[i].root_path])
  /\ \A m \in FoundPos : \A n \in FoundPos :
       events[m].project.root_path = events[n].project.root_path => m = n
  /\ \A m \in FoundPos :
       events[m].project.strategy_name =
         ExpectedStrategy(fsMarkers[events[m].project.root_path])

\* C18 witness: a scan returned Ok and reported a directory that holds both
\* package.json and Cargo.toml, once, as a Node.js project.
C18_TwoMarkersOneProject ==
  /\ scanResult = "Ok"
  /\ \E i \in SizedIdx :
       /\ fsMarkers[projects[i].root_path] = {"package.json", "Cargo.toml"}
       /\ projects[i].strategy_name = "Node.js"
       /\ Cardinality({ m \in FoundPos :
            events[m].project.root_path = projects[i].root_path }) = 1

\* the sizing of some accepted candidate has begun, or an event of the
\* sizing phase is on the channel
SizingBegun ==
  \/ \E i \in DOMAIN sizePc : sizePc[i] # "todo"
  \/ FoundPos # {}
  \/ \E k \in 1..Len(events) :
       events[k].type = "Scanning" /\ events[k].text # <<>>
         /\ Head(events[k].text) = "Analyzing: "

\* discovery has visited the whole tree and deduplication has decided every
\* candidate
PhasesComplete ==
  /\ walkStack = <<>>
  /\ pc \in {"sizing", "done"}
  /\ \A d \in FsDirs :
       fsMarkers[d] # {} => \E c \in CandIdx : candidates[c].root = d
  /\ \A c \in CandIdx :
       \/ \E j \in DOMAIN valid_projects : valid_projects[j] = candidates[c]
       \/ \E j \in DOMAIN valid_projects :
            UnderTargetOf(candidates[c], valid_projects[j])

\* C20: no candidate is sized and no ProjectFound is sent before discovery
\* of the whole tree and deduplication of all candidates have completed;
\* once sizing has begun the candidates and the accepted set no longer
\* change; every ProjectFound is for an accepted candidate.
C20_PhaseOrder ==
  /\ [](SizingBegun => PhasesComplete)
  /\ [][SizingBegun =>
          UNCHANGED <<candidates, valid_projects, ignored_prefixes>>]_vars
  /\ [](\A m \in FoundPos : \E j \in DOMAIN valid_projects :
          valid_projects[j].root = events[m].project.root_path)

\* C20 witness: sizing is under way after discovery found two candidates and
\* deduplication accepted both: one is sized and reported, the other is
\* still to do.
C20_SizingUnderWay ==
  /\ pc = "sizing"
  /\ Len(candidates) = MaxMarked
  /\ FoundPos # {}
  /\ \E i \in DOMAIN sizePc : sizePc[i] = "done"
  /\ \E j \in DOMAIN sizePc : sizePc[j] = "todo"

----------------------------------------------------------------------------
(* Properties of AppState and the tree *)

\* the places of all nodes of a forest
RECURSIVE ForestPos(_, _)
ForestPos(nodes, prefix) ==
  UNION { { Append(prefix, i) }
            \cup ForestPos(nodes[i].children, Append(prefix, i)) :
          i \in 1..Len(nodes) }

\* the places of the nodes of the tree of the state
TreePos == ForestPos(state.tree_roots, <<>>)

\* the place of the node the cursor row shows, by the flattened tree
CursorPos == flatten_tree(state.tree_roots)[state.selected_index + 1].pos

\* the step handles a selection toggle in Tree mode with the cursor on a row
TreeToggleStep ==
  /\ state.view_mode = "Tree"
  /\ state.selected_index < Len(flatten_tree(state.tree_roots))
  /\ Operate("ToggleSelection")

\* C12: in Tree mode a selection toggle on the node at the cursor gives the
\* node and every node of its subtree the negation of the node's flag and
\* leaves the flag of every node outside the subtree, and the shape of the
\* tree, as they were.
C12_TogglePropagates ==
  [][TreeToggleStep =>
       LET new == ~NodeAt(state.tree_roots, CursorPos).checked
       IN /\ ForestPos(state'.tree_roots, <<>>) = TreePos
          /\ \A q \in TreePos :
               NodeAt(state'.tree_roots, q).checked =
                 IF StartsWith(q, CursorPos) THEN new
                 ELSE NodeAt(state.tree_roots, q).checked]_vars

\* C12 witness: a tree in which a folder and the project below it are
\* checked while a sibling of the folder is not.
C12_SubtreeCheckedSiblingNot ==
  /\ state.view_mode = "Tree"
  /\ \E q \in TreePos : \E r \in TreePos :
       /\ NodeAt(state.tree_roots, q).children # <<>>
       /\ \A d \in TreePos :
            StartsWith(d, q) => NodeAt(state.tree_roots, d).checked
       /\ Len(r) = Len(q) /\ r # q
       /\ ~NodeAt(state.tree_roots, r).checked

\* C13 as stated: a node whose checked flag is true has every descendant
\* checked.
C13_CheckedCoversSubtree ==
  \A q \in TreePos : \A d \in TreePos :
    (NodeAt(state.tree_roots, q).checked /\ StartsWith(d, q)) =>
      NodeAt(state.tree_roots, d).checked

\* C14: a filter change, from any state and in either view mode, leaves the
\* List-mode selection set empty and the cursor at 0, so that selected_count
\* is 0 afterwards.
C14_FilterChangeClears ==
  [][Operate("CycleFilter") =>
       /\ state'.filter_mode # state.filter_mode
       /\ state'.selected_projects = {}
       /\ state'.selected_index = 0
       /\ selected_count(state') = 0]_vars

\* C14 witness: two projects were added, the filter has been changed to Rust
\* and shows a project; the selection set is empty and the cursor is at 0.
C14_FilteredAndCleared ==
  /\ Len(state.all_projects) = MaxView
  /\ state.filter_mode = "Rust"
  /\ visible_count(state) > 0
  /\ state.selected_projects = {}
  /\ state.selected_index = 0

\* the number of rows of the active view, counted from the data of the view
ActiveRows ==
  IF state.view_mode = "List" THEN Len(state.visible_projects)
  ELSE Len(flatten_tree(state.tree_roots))

\* C15: in every reachable state the cursor is in range: below the number
\* of rows of the active view when there are rows, and 0 when there is none.
C15_CursorInRange ==
  /\ state.selected_index >= 0
  /\ ActiveRows > 0 => state.selected_index < ActiveRows
  /\ ActiveRows = 0 => state.selected_index = 0

\* C15 witness: the cursor stands on the last of at least two rows.
C15_CursorOnLastRow ==
  /\ ActiveRows >= MaxView
  /\ state.selected_index = ActiveRows - 1

\* the sort mode that follows a sort mode in the cycle
AfterInCycle(mode) ==
  CASE mode = "SizeDesc" -> "SizeAsc"
    [] mode = "SizeAsc"  -> "NameAsc"
    [] mode = "NameAsc"  -> "NameDesc"
    [] mode = "NameDesc" -> "SizeDesc"

\* C16: toggle_sort moves sort_mode one place along SizeDesc, SizeAsc,
\* NameAsc, NameDesc, SizeDesc; four consecutive calls return sort_mode to
\* its value and fewer do not.
C16_SortCycle ==
  /\ [][Operate("ToggleSort") =>
          state'.sort_mode = AfterInCycle(state.sort_mode)]_vars
  /\ [](/\ toggle_sort(toggle_sort(toggle_sort(toggle_sort(state)))).sort_mode
             = state.sort_mode
        /\ toggle_sort(toggle_sort(toggle_sort(state))).sort_mode
             # state.sort_mode
        /\ toggle_sort(toggle_sort(state)).sort_mode # state.sort_mode
        /\ toggle_sort(state).sort_mode # state.sort_mode)

\* C16 witness: three toggles have brought the sort mode to NameDesc with
\* two projects listed.
C16_ReachedNameDesc ==
  /\ state.sort_mode = "NameDesc"
  /\ state.view_mode = "List"
  /\ Len(state.visible_projects) = MaxView

\* two neighbours of the list are in the order of a sort mode
InSortOrder(mode, a, b) ==
  CASE mode = "SizeDesc" -> a.total_size >= b.total_size
    [] mode = "SizeAsc"  -> a.total_size <= b.total_size
    [] mode = "NameAsc"  -> ~PathLess(b.root_path, a.root_path)
    [] mode = "NameDesc" -> ~PathLess(a.root_path, b.root_path)

\* C17: whenever the view mode is List, every two neighbours of
\* visible_projects are in the order of the active sort mode.
C17_ListSorted ==
  state.view_mode = "List" =>
    \A i \in 1..(Len(state.visible_projects) - 1) :
      InSortOrder(state.sort_mode, state.visible_projects[i],
                  state.visible_projects[i + 1])

\* C17 witness: the list shows two projects of different size by descending
\* path.
C17_ListedByNameDesc ==
  /\ state.view_mode = "List"
  /\ state.sort_mode = "NameDesc"
  /\ Len(state.visible_projects) = MaxView
  /\ state.visible_projects[1].total_size
       # state.visible_projects[Len(state.visible_projects)].total_size
  /\ PathLess(state.visible_projects[Len(state.visible_projects)].root_path,
              state.visible_projects[1].root_path)

----------------------------------------------------------------------------
(* Properties of the deletion step *)

\* the targets of the projects selected when the session ended
SelectedTargets ==
  LET sel == get_selected_projects(state,
               CHOOSE o \in Orders(state.selected_projects) : TRUE)
  IN UNION { { sel[i].targets[k] : k \in 1..Len(sel[i].targets) } :
             i \in 1..Len(sel) }

\* C19 as stated: after a confirmed session every target of a selected
\* project that exists and can be removed has been removed, whether or not
\* the removal of another target failed, and a missing target is no error.
C19_TargetsIndependent ==
  (tuiPc = "finished" /\ state.deletion_confirmed) =>
    /\ deleted = SelectedTargets \ (delEnv.missing \cup delEnv.failing)
    /\ delEnv.failing = {} => tuiResult = "cleaned"

----------------------------------------------------------------------------
(* Properties of the main loop *)

\* the projects of the ProjectFound events of a queue
QueuedProjects(queue) ==
  { queue[k].project :
      k \in { j \in 1..Len(queue) : queue[j].type = "ProjectFound" } }

\* the projects of all_projects
AppliedProjects == { state.all_projects[k] : k \in 1..Len(state.all_projects) }

\* the projects the scan accepted: still to report, on the channel, applied
Accepted ==
  feed \cup analyzing \cup QueuedProjects(rxQueue) \cup AppliedProjects

\* all_projects holds every accepted project once and nothing is on its way
AllApplied ==
  /\ feed = {}
  /\ analyzing = {}
  /\ QueuedProjects(rxQueue) = {}
  /\ Len(state.all_projects) = Cardinality(Accepted)

\* C21: while run_tui holds the Receiver the accepted projects of a scan
\* that does not fail never change, and none is held twice; once scanning is false all_projects holds every one
\* of them once; and if the scan sends Complete and the loop keeps coming
\* to its render and poll, then from some point on scanning is false and
\* all_projects holds every accepted project once, in whatever order the
\* projects were reported.
C21_ScanEndsAllProjectsApplied ==
  /\ [][(LoopHoldsReceiver /\ scanResult' # "ErrWalk")
          => Accepted' = Accepted]_vars
  /\ [](Len(state.all_projects) = Cardinality(AppliedProjects))
  /\ []((feed \cup analyzing)
          \cap (QueuedProjects(rxQueue) \cup AppliedProjects) = {})
  /\ [](feed \cap analyzing = {})
  /\ [](QueuedProjects(rxQueue) \cap AppliedProjects = {})
  /\ [](~state.scanning => AllApplied)
  /\ (<>feedComplete /\ []<>(tuiPc = "poll"))
        => <>[](~state.scanning /\ AllApplied)

\* C21 witness: the scan is over and two projects are held, the one with the
\* greater path reported first.
C21_BothAppliedOutOfOrder ==
  /\ ~state.scanning
  /\ Len(state.all_projects) = MaxLoop
  /\ PathLess(state.all_projects[2].root_path, state.all_projects[1].root_path)

\* the projects of the ProjectFound events of a queue, in the order sent
RECURSIVE QueuedInOrder(_)
QueuedInOrder(queue) ==
  IF queue = <<>> THEN <<>>
  ELSE (IF Head(queue).type = "ProjectFound"
        THEN << Head(queue).project >> ELSE <<>>)
       \o QueuedInOrder(Tail(queue))

\* the positions of the events of a type in a queue
PositionsOf(queue, type) == { k \in 1..Len(queue) : queue[k].type = type }

\* the step is the first half of a round: from the drain to the render
TickStep == tuiPc = "drain" /\ tuiPc' = "poll"

\* C22: the first half of a round leaves the channel empty and has applied
\* every event that was in it, in order: the projects are appended to
\* all_projects, scanning is false if a Complete was there, scanning_path
\* is the text of the last Scanning event.
C22_TickDrainsChannel ==
  [][TickStep =>
          /\ rxQueue' = <<>>
          /\ state'.all_projects =
               state.all_projects \o QueuedInOrder(rxQueue)
          /\ state'.scanning =
               (state.scanning /\ PositionsOf(rxQueue, "Complete") = {})
          /\ LET sc == PositionsOf(rxQueue, "Scanning")
             IN state'.scanning_path =
                  IF sc = {} THEN state.scanning_path
                  ELSE rxQueue[CHOOSE k \in sc : \A j \in sc : j <= k].text]_vars

\* C22 witness: after an earlier round applied a project, a burst of three
\* events (Analyzing, ProjectFound, Complete) waits for the next round.
C22_BurstWaiting ==
  /\ tuiPc = "drain"
  /\ state.all_projects # <<>>
  /\ Len(rxQueue) >= 3
  /\ PositionsOf(rxQueue, "Complete") # {}

----------------------------------------------------------------------------
(* Properties of the selection *)

\* the projects get_selected_projects returns for a state
SelectedSet(st) ==
  LET sel == get_selected_projects(st,
               CHOOSE o \in Orders(st.selected_projects) : TRUE)
  IN { sel[i] : i \in 1..Len(sel) }

\* C23 as stated: a step that begins and ends with the confirmation modal
\* shown leaves the deletion worklist as it was.
C23_WorklistFixedInModal ==
  [][(state.show_confirmation /\ state'.show_confirmation) =>
       SelectedSet(state') = SelectedSet(state)]_vars

\* C24: a state with deletion_confirmed set is one run_tui has returned, and
\* get_selected_projects on it is not empty and as long as selected_count
\* says.
C24_ConfirmedHasWorklist ==
  state.deletion_confirmed =>
    /\ tuiPc \in {"exited", "finished"}
    /\ SelectedSet(state) # {}
    /\ Cardinality(SelectedSet(state)) = selected_count(state)

\* C24 witness: run_tui has returned with a confirmation made in Tree view,
\* the deletion step has not run yet.
C24_ReturnedConfirmedTree ==
  /\ tuiPc = "exited"
  /\ state.deletion_confirmed
  /\ state.view_mode = "Tree"
  /\ selected_count(state) > 0

----------------------------------------------------------------------------
(* Properties of the reported targets *)

\* C25 as stated: no target of a sized project equals, contains or lies
\* inside a target of another sized project.
C25_TargetsDisjoint ==
  \A i \in SizedIdx : \A j \in SizedIdx \ {i} :
    \A s \in TargetSet(projects[i]) : \A t \in TargetSet(projects[j]) :
      ~StartsWith(s, t) /\ ~StartsWith(t, s)

\* the places of the checked nodes of the tree that carry a project
CheckedProjectPos ==
  { q \in TreePos : NodeAt(state.tree_roots, q).checked
                      /\ IsSome(NodeAt(state.tree_roots, q).project) }

\* C26: in every reachable state and either view mode selected_count is the
\* length of get_selected_projects and total_selected_size is the sum of
\* total_size over it, whatever order the index set is iterated in; in Tree
\* mode the worklist holds the project of every checked node of the forest
\* that carries one, under a collapsed ancestor or not.
C26_SelectionQueriesAgree ==
  /\ \A o \in Orders(state.selected_projects) :
       /\ selected_count(state) = Len(get_selected_projects(state, o))
       /\ total_selected_size(state) =
            SumSizes(get_selected_projects(state, o))
  /\ state.view_mode = "Tree" =>
       /\ selected_count(state) = Cardinality(CheckedProjectPos)
       /\ SelectedSet(state) =
            { NodeAt(state.tree_roots, q).project : q \in CheckedProjectPos }

\* C26 witness: Tree view, a checked project lies under a collapsed node.
C26_CheckedUnderCollapsed ==
  /\ state.view_mode = "Tree"
  /\ \E q \in TreePos : \E d \in CheckedProjectPos :
       /\ NodeAt(state.tree_roots, q).collapsed
       /\ StartsWith(d, q) /\ d # q

\* C27: whenever the view mode is List every index of the selected-index
\* set is a row of visible_projects.
C27_SelectedIndicesAreRows ==
  state.view_mode = "List" =>
    \A i \in state.selected_projects :
      i >= 0 /\ i < Len(state.visible_projects)

\* C27 witness: back in List view with the last row selected after a visit
\* to Tree view, with a filter that hides a project.
C27_LastRowSelectedFiltered ==
  /\ state.view_mode = "List"
  /\ state.filter_mode # "All"
  /\ Len(state.visible_projects) < Len(state.all_projects)
  /\ state.visible_projects # <<>>
  /\ Len(state.visible_projects) - 1 \in state.selected_projects
  /\ state.tree_roots # <<>>

\* the rows of the flattened tree of the state
FlatRows == flatten_tree(state.tree_roots)

\* the step handles an expand toggle in Tree mode with the cursor on a row
TreeExpandStep ==
  /\ state.view_mode = "Tree"
  /\ state.selected_index < Len(FlatRows)
  /\ Operate("ToggleExpand")

\* C28: for the forest of every reachable state and every index i,
\* get_node_at_mut finds the node of row i of the flattened tree when i is a
\* row and nothing when it is not; an expand toggle in Tree mode changes the
\* collapsed flag of the node of the cursor row, if it has children, and
\* nothing else of the forest.
C28_IndexWalkIsFlattenOrder ==
  /\ [](\A i \in 0..(Len(FlatRows) + 1) :
          get_node_at_mut(state, i) =
            IF i < Len(FlatRows) THEN FlatRows[i + 1].pos ELSE <<>>)
  /\ [](\A i \in 1..Len(FlatRows) :
          FlatRows[i].node = NodeAt(state.tree_roots, FlatRows[i].pos))
  /\ [][TreeExpandStep =>
          LET node == NodeAt(state.tree_roots, CursorPos)
          IN state'.tree_roots =
               IF node.children = <<>> THEN state.tree_roots
               ELSE ReplaceAt(state.tree_roots, CursorPos,
                              [ node EXCEPT !.collapsed = ~node.collapsed ])]_vars

\* C28 witness: Tree view, the first root is collapsed over a child and the
\* cursor stands on the second root, which is row 1.
C28_CursorBehindCollapsed ==
  /\ state.view_mode = "Tree"
  /\ Len(state.tree_roots) = 2
  /\ state.tree_roots[1].collapsed
  /\ state.tree_roots[1].children # <<>>
  /\ state.selected_index = 1
  /\ get_node_at_mut(state, 1) = << 2 >>

\* the step rebuilds the forest: a project or Complete is applied, the sort
\* or the filter is changed in Tree mode, or the view is switched to Tree
RebuildStep ==
  \/ /\ state.view_mode = "Tree"
     /\ \/ \E p \in TuiProjects : AddProject(p)
        \/ FinishScan
        \/ Operate("ToggleSort")
        \/ Operate("CycleFilter")
  \/ /\ state.view_mode = "List"
     /\ Operate("ToggleViewMode")

\* C29: after a step that rebuilds the forest the view is Tree, no node of
\* the forest is checked or collapsed, and selected_count is 0.
C29_RebuildResetsFlags ==
  [][RebuildStep =>
       /\ state'.view_mode = "Tree"
       /\ \A q \in ForestPos(state'.tree_roots, <<>>) :
            /\ ~NodeAt(state'.tree_roots, q).checked
            /\ ~NodeAt(state'.tree_roots, q).collapsed
       /\ selected_count(state') = 0
       /\ get_selected_projects(state', <<>>) = <<>>]_vars

\* C29 witness: Tree view with a collapsed folder that is checked together
\* with the project below it, while a project is still to arrive: the next
\* rebuild has flags to discard.
C29_FlagsSetBeforeRebuild ==
  /\ state.view_mode = "Tree"
  /\ feed # {}
  /\ \E q \in TreePos : \E d \in CheckedProjectPos :
       /\ NodeAt(state.tree_roots, q).collapsed
       /\ NodeAt(state.tree_roots, q).checked
       /\ StartsWith(d, q)

----------------------------------------------------------------------------
(* Properties of build_tree *)

\* the places of the nodes of the tree that carry a given project
CarrierPos(p) == { q \in TreePos : NodeAt(state.tree_roots, q).project = p }

\* C30 as stated: in Tree view, where the forest is build_tree of
\* all_projects, every project is carried by exactly one node, the path of
\* that node is the project's root_path, and total_size summed over the
\* roots is the sum of the projects' total_size.
C30_TreeCarriesEveryProject ==
  state.view_mode = "Tree" =>
    /\ \A k \in 1..Len(state.all_projects) :
         LET p == state.all_projects[k]
         IN /\ Cardinality(CarrierPos(p)) = 1
            /\ \A q \in CarrierPos(p) :
                 NodeAt(state.tree_roots, q).path = p.root_path
    /\ NodesTotalSize(state.tree_roots) = SumSizes(state.all_projects)

\* the place of a name among the lower-cased names: "B" counts as "b"
FoldedRank(n) ==
  CHOOSE k \in 1..Len(NameOrder) : NameOrder[k] = (IF n = "B" THEN "b" ELSE n)

\* the nodes of a level are in non-decreasing order of lower-cased label
LevelOrdered(nodes) ==
  \A i \in 1..(Len(nodes) - 1) :
    FoldedRank(Label(nodes[i])) <= FoldedRank(Label(nodes[i + 1]))

\* C31: in Tree view, where the forest is what build_tree returned, the
\* roots and the children of every node are in non-decreasing order of
\* lower-cased label.
C31_EveryLevelSorted ==
  state.view_mode = "Tree" =>
    /\ LevelOrdered(state.tree_roots)
    /\ \A q \in TreePos : LevelOrdered(NodeAt(state.tree_roots, q).children)

\* C31 witness: a forest whose roots are a and B, in that order, and whose
\* folder a holds app before B: at both levels byte order, in which the
\* nodes were inserted, would put B first.
C31_SortedBelowTheRoots ==
  /\ state.view_mode = "Tree"
  /\ Len(state.tree_roots) = 2
  /\ Label(state.tree_roots[1]) = "a"
  /\ Label(state.tree_roots[2]) = "B"
  /\ Len(state.tree_roots[1].children) = 2
  /\ Label(state.tree_roots[1].children[1]) = "app"
  /\ Label(state.tree_roots[1].children[2]) = "B"

----------------------------------------------------------------------------
(* Properties of flatten_tree *)

\* the places of the proper ancestors of a place, the root of its tree first
AncestorsOf(q) == { SubSeq(q, 1, k) : k \in 1..(Len(q) - 1) }

\* the places of the nodes that have no collapsed proper ancestor
ShownPos ==
  { q \in TreePos :
      \A r \in AncestorsOf(q) : ~NodeAt(state.tree_roots, r).collapsed }

\* place p comes before place q in pre-order: an ancestor before its
\* descendants, an earlier sibling's subtree before a later one's
PreOrderLess(p, q) ==
  \E k \in 1..Len(q) :
    /\ k <= Len(p) + 1
    /\ \A j \in 1..(k - 1) : p[j] = q[j]
    /\ (k = Len(p) + 1 \/ p[k] < q[k])

\* C32: in Tree view the rows flatten_tree returns are the nodes without a
\* collapsed proper ancestor, each once, in pre-order; the depth of a row is
\* the number of proper ancestors of its node, and the row refers to that
\* node.
C32_FlattenIsShownPreOrder ==
  state.view_mode = "Tree" =>
    /\ { FlatRows[i].pos : i \in 1..Len(FlatRows) } = ShownPos
    /\ Len(FlatRows) = Cardinality(ShownPos)
    /\ \A i \in 1..(Len(FlatRows) - 1) :
         PreOrderLess(FlatRows[i].pos, FlatRows[i + 1].pos)
    /\ \A i \in 1..Len(FlatRows) :
         /\ FlatRows[i].depth = Cardinality(AncestorsOf(FlatRows[i].pos))
         /\ FlatRows[i].node = NodeAt(state.tree_roots, FlatRows[i].pos)

\* C32 witness: a folder at depth 1 is collapsed over its child while its
\* own parent is expanded, and another root follows.
C32_CollapsedBelowExpanded ==
  /\ state.view_mode = "Tree"
  /\ Len(state.tree_roots) >= 2
  /\ \E q \in TreePos :
       /\ Len(q) = 2 /\ q[1] = 1
       /\ NodeAt(state.tree_roots, q).collapsed
       /\ NodeAt(state.tree_roots, q).children # <<>>
       /\ ~NodeAt(state.tree_roots, << q[1] >>).collapsed

\* the node at a place is the last of its siblings (of the roots, for a root)
IsLastSibling(q) ==
  q[Len(q)] = IF Len(q) = 1 THEN Len(state.tree_roots)
              ELSE Len(NodeAt(state.tree_roots,
                              SubSeq(q, 1, Len(q) - 1)).children)

\* the three-character segment for an ancestor at a place
GuideSegment(r) == IF IsLastSibling(r) THEN "   " ELSE "|  "

\* the elbow of a node at a place
GuideElbow(q) == IF IsLastSibling(q) THEN "L_ " ELSE "+_ "

\* C33 as stated: the prefix of a row at depth 0 is empty; the prefix of a
\* row at depth D >= 1 has one segment for each ancestor, from the root of
\* its tree down to its parent, and then the elbow.
C33_SegmentPerAncestor ==
  state.view_mode = "Tree" =>
    \A i \in 1..Len(FlatRows) :
      LET q == FlatRows[i].pos
          D == FlatRows[i].depth
      IN IF D = 0 THEN FlatRows[i].guide_prefix = <<>>
         ELSE FlatRows[i].guide_prefix =
                [ k \in 1..D |-> GuideSegment(SubSeq(q, 1, k)) ]
                  \o << GuideElbow(q) >>

\* C33, amended: the prefix of a row at depth 0 is empty; the prefix of a
\* row at depth D >= 1 has one segment for each ancestor below the root of
\* its tree, from depth 1 down to its parent (D - 1 segments), and then the
\* elbow; the root of the tree contributes no segment.
C33_SegmentPerAncestorBelowRoot ==
  state.view_mode = "Tree" =>
    \A i \in 1..Len(FlatRows) :
      LET q == FlatRows[i].pos
          D == FlatRows[i].depth
      IN IF D = 0 THEN FlatRows[i].guide_prefix = <<>>
         ELSE FlatRows[i].guide_prefix =
                [ k \in 1..(D - 1) |-> GuideSegment(SubSeq(q, 1, k + 1)) ]
                  \o << GuideElbow(q) >>

\* C33 witness: rows at depth 2 under a parent that is not a last child
\* (bar segment) and under one that is (blank segment), and a row at depth
\* 1 with a tee.
C33_BarAndBlankSegments ==
  /\ state.view_mode = "Tree"
  /\ \E i \in 1..Len(FlatRows) : FlatRows[i].guide_prefix = << "|  ", "L_ " >>
  /\ \E i \in 1..Len(FlatRows) : FlatRows[i].guide_prefix = << "   ", "L_ " >>
  /\ \E i \in 1..Len(FlatRows) : FlatRows[i].guide_prefix = << "+_ " >>

----------------------------------------------------------------------------
(* Properties of the List projection.                                       *)

\* the number of places of a sequence that hold a value
Occurrences(seq, x) == Cardinality({ i \in 1..Len(seq) : seq[i] = x })

\* C34: whenever the view mode is List, visible_projects holds every
\* project of all_projects whose strategy name is that of the active filter
\* (every project under All) as often as all_projects does, and nothing
\* else.
C34_ListIsFilteredProjects ==
  state.view_mode = "List" =>
    /\ \A i \in 1..Len(state.visible_projects) :
         \E j \in 1..Len(state.all_projects) :
           state.visible_projects[i] = state.all_projects[j]
    /\ \A j \in 1..Len(state.all_projects) :
         LET p == state.all_projects[j]
         IN Occurrences(state.visible_projects, p) =
              IF \/ state.filter_mode = "All"
                 \/ p.strategy_name = FilterLabel(state.filter_mode)
              THEN Occurrences(state.all_projects, p)
              ELSE 0

\* C34 witness: the List view under the Rust filter after a visit of the
\* Tree view: of a Node.js and a Rust project the list shows the Rust one.
C34_RustListedAfterTree ==
  /\ state.view_mode = "List"
  /\ state.filter_mode = "Rust"
  /\ state.tree_roots # <<>>
  /\ Len(state.all_projects) = MaxView
  /\ \E j \in 1..Len(state.all_projects) :
       state.all_projects[j].strategy_name = "Node.js"
  /\ Len(state.visible_projects) = 1

\* C35: toggle_view_mode swaps List and Tree, puts the cursor on 0 and
\* derives the projection of the new view from all_projects, filter_mode
\* and sort_mode as they stand; all_projects, filter_mode, sort_mode and
\* the set of selected indices stay as they were.
C35_ToggleViewModeEffect ==
  [][Operate("ToggleViewMode") =>
       /\ state'.view_mode = (IF state.view_mode = "List" THEN "Tree"
                                                          ELSE "List")
       /\ state'.selected_index = 0
       /\ IF state'.view_mode = "List"
          THEN state'.visible_projects =
                 SortProjects(state.sort_mode,
                              FilterProjects(state.filter_mode,
                                             state.all_projects))
          ELSE state'.tree_roots =
                 build_tree(FilterProjects(state.filter_mode,
                                           state.all_projects),
                            state.scan_path)
       /\ state'.all_projects = state.all_projects
       /\ state'.filter_mode = state.filter_mode
       /\ state'.sort_mode = state.sort_mode
       /\ state'.selected_projects = state.selected_projects]_vars

\* C35 witness: the Tree view entered with an index selected in the List
\* view: the set is still there, the cursor is on 0 and the tree has rows.
C35_TreeEnteredWithSelection ==
  /\ state.view_mode = "Tree"
  /\ state.selected_projects # {}
  /\ state.selected_index = 0
  /\ Len(state.all_projects) = MaxView
  /\ Len(FlatRows) >= MaxView

\* C36: in List mode toggle_selection flips the membership of the cursor
\* index in the set of selected indices and changes nothing else, a second
\* call restores the set, and with no project listed it changes nothing;
\* toggle_sort and add_project leave the set of selected indices and the
\* cursor as they were, whatever project now stands at a selected index.
C36_ListSelectionPositional ==
  /\ [][(Operate("ToggleSelection") /\ state.view_mode = "List") =>
          IF state.visible_projects = <<>> THEN state' = state
          ELSE /\ state'.selected_projects =
                    (IF state.selected_index \in state.selected_projects
                     THEN state.selected_projects \ {state.selected_index}
                     ELSE state.selected_projects \cup {state.selected_index})
               /\ state'.selected_projects # state.selected_projects
               /\ state' = [ state EXCEPT !.selected_projects =
                                            state'.selected_projects ]
               /\ toggle_selection(state') = state]_vars
  /\ [][(Operate("ToggleSort") \/ \E p \in TuiProjects : AddProject(p)) =>
          /\ state'.selected_projects = state.selected_projects
          /\ state'.selected_index = state.selected_index]_vars

\* C36 witness: the second of two listed projects is selected, the first is
\* not, and the sort mode has left SizeDesc.
C36_SecondRowSelectedResorted ==
  /\ state.view_mode = "List"
  /\ Len(state.visible_projects) = MaxView
  /\ state.selected_projects = {1}
  /\ state.sort_mode = "SizeAsc"
  /\ state.visible_projects[1].total_size # state.visible_projects[2].total_size

\* a node without its children and its collapsed flag
NodeOwn(node) == [ node EXCEPT !.children = <<>>, !.collapsed = FALSE ]

\* C37: toggle_expand changes the state only in Tree mode with the cursor
\* on a row whose node has a child: then the collapsed flag of that node is
\* flipped and nothing else changes, no checked flag, no other collapsed
\* flag, not the cursor; in List mode, on a leaf and with the cursor on no
\* row the state stays as it is.
C37_ToggleExpandEffect ==
  [][Operate("ToggleExpand") =>
       IF /\ state.view_mode = "Tree"
          /\ state.selected_index < Len(FlatRows)
          /\ FlatRows[state.selected_index + 1].node.children # <<>>
       THEN /\ state' = [ state EXCEPT !.tree_roots = state'.tree_roots ]
            /\ ForestPos(state'.tree_roots, <<>>) = TreePos
            /\ \A q \in TreePos :
                 LET old == NodeAt(state.tree_roots, q)
                     new == NodeAt(state'.tree_roots, q)
                 IN /\ NodeOwn(new) = NodeOwn(old)
                    /\ new.collapsed = IF q = CursorPos THEN ~old.collapsed
                                                        ELSE old.collapsed
       ELSE state' = state]_vars

\* C37 witness: Tree view, the cursor on a collapsed checked node with a
\* child, beside another root.
C37_CollapsedCheckedAtCursor ==
  /\ state.view_mode = "Tree"
  /\ Len(state.tree_roots) = 2
  /\ state.selected_index < Len(FlatRows)
  /\ FlatRows[state.selected_index + 1].node.children # <<>>
  /\ FlatRows[state.selected_index + 1].node.collapsed
  /\ FlatRows[state.selected_index + 1].node.checked
  /\ \E q \in TreePos : ~NodeAt(state.tree_roots, q).checked

====
